---- MODULE Spec2Model ----
(***************************************************************************)
(* A model of internet-monitor: the probe scheduler and the pings store of *)
(* backend/server-sqlite3.js (the file holds both server variants: the     *)
(* sqlite3 fallback, lines 1-149, and the better-sqlite3 server, lines     *)
(* 151-306), the dashboard aggregation of frontend/public/app.js, and the  *)
(* two report queries of scripts/export_daily_csv.sh.                      *)
(*                                                                         *)
(* Time is in milliseconds, as Date.now() and the ts column are.  Epoch    *)
(* values are kept small (a few days after the epoch) so that every        *)
(* product stays inside TLC's integers; the widths (60000, 86400000, ...)  *)
(* are the program's own.                                                  *)
(***************************************************************************)
EXTENDS Integers, Sequences, FiniteSets, TLC

VARIABLES
    variant,    \* which server of server-sqlite3.js runs: "sqlite3" | "better-sqlite3"
    running,    \* the server process is alive (FALSE after an uncaught exception)
    now,        \* the wall clock, Date.now()
    bootTs,     \* the clock value when app.listen's callback started the loops
    timers,     \* per target index: the state of its setTimeout / setInterval
    ticks,      \* the interval callbacks that have run: [target, ts]
    inflight,   \* the ping probes whose exec() has not called back yet
    tracer,     \* the trace loop: its timers, and the traceroutes started
    host,       \* what the machine offers the process, and how startup went
    pings,      \* the pings table, in insertion (id) order
    traces,     \* the traceroutes table, in insertion (id) order
    errlog,     \* what console.error has reported, oldest first
    csv,        \* the output of the last daily export
    failures,   \* the output of the last failure-correlation report
    apiPings,   \* the last GET /api/pings response
    apiStatus,  \* the last GET /api/status response
    apiTraces,  \* the last GET /api/traceroutes response
    timeline    \* what the dashboard last drew (renderTimeline)

vars == <<variant, running, now, bootTs, timers, ticks, inflight, tracer, host,
          pings, traces, errlog, csv, failures, apiPings, apiStatus, apiTraces, timeline>>

serverVars == <<variant, running, bootTs, timers, ticks, inflight, tracer, host>>
reportVars == <<csv, failures>>
clientVars == <<apiPings, apiStatus, apiTraces, timeline>>

-----------------------------------------------------------------------------
(* Configuration *)

\* const TARGETS = [...]: the configured targets, in configured order.
TARGETS == <<"google.com", "8.8.8.8", "1.1.1.1", "frontier.com", "192.168.2.1">>

TargetSet == {TARGETS[i] : i \in DOMAIN TARGETS}

\* JavaScript null / SQL NULL in a numeric column (latencies and ttls are >= 0).
NULL == -1

-----------------------------------------------------------------------------
(* Probe executor: runPingCommand *)

\* What exec hands to the callback of runPingCommand, as far as the callback
\* can tell outputs apart: what its three patterns find in raw (stdout +
\* stderr), and err. time is the number matched by
\* /time[=<]\s*([\d.]+)\s*ms/i (NULL: no match), bytesFrom whether
\* /bytes from/i matches, ttl the number matched by /ttl[=|:]\s*(\d+)/i
\* (NULL: no match), err whether exec reports an error (a non-zero exit
\* status, as ping's when no reply came, or the kill at the timeout).
RawReply(t) == [time |-> t, bytesFrom |-> TRUE, ttl |-> 57, err |-> FALSE]
RawReplyNoTime == [time |-> NULL, bytesFrom |-> TRUE, ttl |-> 57, err |-> FALSE]
RawLost == [time |-> NULL, bytesFrom |-> FALSE, ttl |-> NULL, err |-> TRUE]

\* The result object runPingCommand hands to its callback. err is ignored:
\* the callback is always called with (null, {raw, alive, time_ms, ttl}).
\* Mutant: only the 'bytes from' marker makes the target reachable.
RunPingCommandMarkerOnly(raw) ==
    [raw     |-> raw,
     alive   |-> IF raw.bytesFrom THEN 1 ELSE 0,
     time_ms |-> raw.time,
     ttl     |-> raw.ttl]

\* Mutant: a command that failed reports an unreachable target.
RunPingCommandErrIsDown(raw) ==
    [raw     |-> raw,
     alive   |-> IF ~raw.err /\ (raw.time # NULL \/ raw.bytesFrom) THEN 1 ELSE 0,
     time_ms |-> raw.time,
     ttl     |-> raw.ttl]

RunPingCommand(raw) ==
    [raw     |-> raw,
     alive   |-> IF raw.time # NULL \/ raw.bytesFrom THEN 1 ELSE 0,
     time_ms |-> raw.time,
     ttl     |-> raw.ttl]

-----------------------------------------------------------------------------
(* Time-series store: the pings table *)

\* INSERT INTO pings (ts,target,alive,time_ms,ttl,raw) VALUES (?,?,?,?,?,?)
\* on a table whose only key is the AUTOINCREMENT id: the row is appended,
\* whatever rows are already there.
\* Mutant: a UNIQUE index on ts with INSERT OR REPLACE.
InsertPingUniqueTs(table, ts, target, res) ==
    LET kept == SelectSeq(table, LAMBDA r : r.ts # ts)
    IN Append(kept, [id      |-> Len(table) + 1,
                     ts      |-> ts,
                     target  |-> target,
                     alive   |-> res.alive,
                     time_ms |-> res.time_ms,
                     ttl     |-> res.ttl,
                     raw     |-> res.raw])

InsertPing(table, ts, target, res) ==
    Append(table, [id      |-> Len(table) + 1,
                   ts      |-> ts,
                   target  |-> target,
                   alive   |-> res.alive,
                   time_ms |-> res.time_ms,
                   ttl     |-> res.ttl,
                   raw     |-> res.raw])

\* Mutant: the table keeps its newest row only.
InsertTraceNewestOnly(table, ts, target) ==
    <<[id |-> Len(table) + 1, ts |-> ts, target |-> target]>>

\* insertTraceStmt.run(ts, target, raw) on the traceroutes table.
InsertTrace(table, ts, target) ==
    Append(table, [id |-> Len(table) + 1, ts |-> ts, target |-> target])

\* The rows of a table, as a set (ids make them distinct).
Rows(table) == {table[i] : i \in DOMAIN table}

-----------------------------------------------------------------------------
(* Daily export: the SQL of export_daily_csv.sh *)

\* The width of a minute slot, ms.
BucketMs == 60000

\* WHERE idx < 1439: the index of the last generated minute.
LastMinuteIdx == 1439

\* END_S = START_S + 24*60*60, in ms.
DayMs == 24 * 60 * 60 * 1000

\* Mutant: the recursion stops one step late (WHERE idx <= 1439).
MinutesOneMore(startMs) == [idx \in 0..(LastMinuteIdx + 1) |-> startMs + idx * BucketMs]

\* minutes(idx, ts): the recursive CTE, 0 -> START_MS, idx+1 -> ts + 60000.
Minutes(startMs) == [idx \in 0..LastMinuteIdx |-> startMs + idx * BucketMs]

\* (p.ts / 60000) * 60000 with SQLite's integer division (ts >= 0).
MinuteTs(ts) == (ts \div BucketMs) * BucketMs

\* WHERE p.ts >= START_MS AND p.ts < END_MS
InDay(ts, startMs) == ts >= startMs /\ ts < startMs + DayMs

\* Mutant: GROUP BY minute_ts alone.
AggGroupAnyTarget(table, startMs, minute_ts, target) ==
    {p \in Rows(table) : InDay(p.ts, startMs) /\ MinuteTs(p.ts) = minute_ts}

\* The rows of one group of GROUP BY minute_ts, p.target.
AggGroup(table, startMs, minute_ts, target) ==
    {p \in Rows(table) : /\ InDay(p.ts, startMs)
                         /\ MinuteTs(p.ts) = minute_ts
                         /\ p.target = target}

\* The sum AVG(p.time_ms) divides: the latencies of the rows S, added.
RECURSIVE SumLatency(_)
SumLatency(S) ==
    IF S = {} THEN 0
    ELSE LET p == CHOOSE q \in S : TRUE
         IN p.time_ms + SumLatency(S \ {p})

\* Mutant: AVG over every row of the group.
WithLatencyAll(G) == G

\* The rows AVG(p.time_ms) takes: an aggregate skips NULL.
WithLatency(G) == {p \in G : p.time_ms # NULL}

\* agg: one row per (minute_ts, target) that has a sample in the day.
\* AVG(p.time_ms) is kept as the sum and the count of the non-NULL latencies
\* (count 0: SQL NULL).
Agg(table, startMs) ==
    LET keys == {<<MinuteTs(p.ts), p.target>> :
                    p \in {q \in Rows(table) : InDay(q.ts, startMs)}}
    IN {LET G == AggGroup(table, startMs, k[1], k[2])
            L == WithLatency(G)
        IN [minute_ts     |-> k[1],
            target        |-> k[2],
            total         |-> Cardinality(G),
            success_count |-> Cardinality({p \in G : p.alive = 1}),
            lat_sum       |-> SumLatency(L),
            lat_n         |-> Cardinality(L)] : k \in keys}

\* Mutant: the column without COALESCE.
Coalesce0Keep(x) == x

\* COALESCE(x, 0)
Coalesce0(x) == IF x = NULL THEN 0 ELSE x

\* The a.* columns of a (minute, target) pair the LEFT JOIN found no agg row
\* for: all NULL.
NullAgg == [minute_ts |-> NULL, target |-> "", total |-> NULL,
            success_count |-> NULL, lat_sum |-> 0, lat_n |-> 0]

\* The result column: the CASE expression over COALESCE(a.total,0) and
\* COALESCE(a.success_count,0) * 1.0 / a.total. The quotient is compared
\* exactly: success/total >= 9/10 iff 10*success >= 9*total (the double
\* nearest to s/t is >= the double nearest to 0.9 exactly when s/t >= 0.9,
\* for every total below 2^50).
\* Mutant: ratio > 0.9 where the code has >=.
ResultOfStrict(success_count, total) ==
    IF Coalesce0(total) = 0 THEN "no_data"
    ELSE IF Coalesce0(success_count) * 10 > 9 * total THEN "UP"
    ELSE IF Coalesce0(success_count) * 2 >= total THEN "DEGRADED"
    ELSE "DOWN"

ResultOf(success_count, total) ==
    IF Coalesce0(total) = 0 THEN "no_data"
    ELSE IF Coalesce0(success_count) * 10 >= 9 * total THEN "UP"
    ELSE IF Coalesce0(success_count) * 2 >= total THEN "DEGRADED"
    ELSE "DOWN"

\* printf('%.Nf', num * 1.0 / den) for scale = 10^N, as the number its digits
\* spell in units of 1/scale: the quotient rounded to the nearest unit (no
\* quotient of the tables below lies halfway between two units).
Printf(num, den, scale) == (2 * scale * num + den) \div (2 * den)

\* The SELECT list for minute m (index idx) and target t joined with the agg
\* row a (NullAgg when the LEFT JOIN found none). success_ratio is in
\* thousandths ('0.000' is 0), avg_ms in hundredths of a ms, NULL for the
\* empty field.
ExportRow(idx, m, t, a) ==
    [idx           |-> idx,
     minute        |-> m,
     target        |-> t,
     success_count |-> Coalesce0(a.success_count),
     total         |-> Coalesce0(a.total),
     success_ratio |-> IF Coalesce0(a.total) = 0 THEN 0
                       ELSE Printf(Coalesce0(a.success_count), a.total, 1000),
     avg_ms        |-> IF a.lat_n = 0 THEN NULL
                       ELSE Printf(a.lat_sum, a.lat_n, 100),
     result        |-> ResultOf(a.success_count, a.total)]

\* minutes m CROSS JOIN targets t LEFT JOIN agg a
\*   ON a.minute_ts = m.ts AND a.target = t.t
\* ORDER BY m.ts ASC, t.t ASC:
\* for minute idx and target t, every agg row that matches gives an output
\* row, and a pair no agg row matches gives one row of NULLs. The output is
\* these groups of rows in the order of idx, then of t.
ExportRows(table, startMs) ==
    LET mins == Minutes(startMs)
        agg  == Agg(table, startMs)
    IN [idx \in DOMAIN mins |->
          LET M == {a \in agg : a.minute_ts = mins[idx]}
          IN [t \in TargetSet |->
                LET A == {a \in M : a.target = t}
                IN IF A = {} THEN {ExportRow(idx, mins[idx], t, NullAgg)}
                   ELSE {ExportRow(idx, mins[idx], t, a) : a \in A}]]

-----------------------------------------------------------------------------
(* Query API: GET /api/pings *)

\* A request's query string, after parseFloat / parseInt:
\*   hoursNum: parseFloat(req.query.hours) is a number (FALSE: absent or NaN),
\*   h100: that number, in hundredths of an hour;
\*   limitKind: "absent" (no or empty limit), "int" (parseInt gave limit),
\*     "nan" (parseInt gave NaN).
Query(hoursNum, h100, limitKind, limit) ==
    [hoursNum |-> hoursNum, h100 |-> h100, limitKind |-> limitKind, limit |-> limit]

\* /api/pings?hours=12, the dashboard's request.
DashboardQuery == Query(TRUE, 1200, "absent", 0)

\* const hours = parseFloat(req.query.hours) || 24, in hundredths: NaN and 0
\* are falsy.
HoursOf(q) == IF q.hoursNum /\ q.h100 # 0 THEN q.h100 ELSE 2400

\* const since = Date.now() - Math.max(1, hours) * 60 * 60 * 1000
SinceOf(clock, q) ==
    clock - (IF HoursOf(q) > 100 THEN HoursOf(q) ELSE 100) * ((60 * 60 * 1000) \div 100)

\* const limit = parseInt(req.query.limit || '200000', 10)
LimitOf(q) == IF q.limitKind = "absent" THEN 200000 ELSE q.limit

\* The SELECT cannot run with the limit bound to its LIMIT ?: NaN is bound
\* as NULL, and SQLite refuses a LIMIT that is not an integer (datatype
\* mismatch).
LimitRefused(q) == q.limitKind = "nan"

\* ORDER BY ts ASC on rows taken in id order; rows of equal ts stay in id
\* order (SQL leaves their order open; nothing below depends on it).
\* Mutant: no ORDER BY, the rows come in rowid order.
SortByRowid(rows) == rows

RECURSIVE SortByTs(_)
SortByTs(rows) ==
    IF rows = <<>> THEN <<>>
    ELSE LET r      == rows[Len(rows)]
             sorted == SortByTs(SubSeq(rows, 1, Len(rows) - 1))
             k      == Cardinality({i \in DOMAIN sorted : sorted[i].ts <= r.ts})
         IN SubSeq(sorted, 1, k) \o <<r>> \o SubSeq(sorted, k + 1, Len(sorted))

\* SELECT * FROM pings WHERE ts >= ? ORDER BY ts ASC LIMIT ?
\* (a negative LIMIT is no limit in SQLite).
SelectPingsSince(table, since, limit) ==
    LET sorted == SortByTs(SelectSeq(table, LAMBDA p : p.ts >= since))
    IN IF limit < 0 \/ limit >= Len(sorted) THEN sorted
       ELSE SubSeq(sorted, 1, limit)

-----------------------------------------------------------------------------
(* Dashboard: buildAggregatedTimeline and renderTimeline of app.js *)

\* const minutes = 12 * 60
TimelineMinutes == 12 * 60

\* [...new Set(entries.map(e => e.target))]
EntryTargets(entries) == {entries[i].target : i \in DOMAIN entries}

\* Mutant: the bucket index is rounded towards zero (the | 0 idiom) where
\* the code uses Math.floor.
RECURSIVE CountEntriesTruncated(_, _, _, _)
CountEntriesTruncated(entries, n, start, empty) ==
    IF n = 0 THEN empty
    ELSE LET buckets == CountEntriesTruncated(entries, n - 1, start, empty)
             e       == entries[n]
             idx     == IF e.ts >= start THEN (e.ts - start) \div BucketMs
                        ELSE -((start - e.ts) \div BucketMs)
         IN IF idx < 0 \/ idx >= TimelineMinutes THEN buckets
            ELSE [buckets EXCEPT
                    ![e.target][idx] =
                        [ok    |-> IF e.alive = 1 THEN @.ok + 1 ELSE @.ok,
                         total |-> @.total + 1]]

\* entries.forEach(e => {...}): the buckets after the first n entries.
\* Math.floor rounds down, as \div does, also below zero.
RECURSIVE CountEntries(_, _, _, _)
CountEntries(entries, n, start, empty) ==
    IF n = 0 THEN empty
    ELSE LET buckets == CountEntries(entries, n - 1, start, empty)
             e       == entries[n]
             idx     == (e.ts - start) \div BucketMs
         IN IF idx < 0 \/ idx >= TimelineMinutes THEN buckets
            ELSE [buckets EXCEPT
                    ![e.target][idx] =
                        [ok    |-> IF e.alive = 1 THEN @.ok + 1 ELSE @.ok,
                         total |-> @.total + 1]]

\* buildAggregatedTimeline(entries) when Date.now() is clock.
BuildAggregatedTimeline(entries, clock) ==
    LET start == clock - TimelineMinutes * BucketMs
        empty == [t \in EntryTargets(entries) |->
                    [i \in 0..(TimelineMinutes - 1) |-> [ok |-> 0, total |-> 0]]]
    IN [start   |-> start,
        targets |-> EntryTargets(entries),
        buckets |-> CountEntries(entries, Len(entries), start, empty)]

\* The class renderTimeline gives the segment of a bucket. bucket.ok /
\* bucket.total is compared exactly (see ResultOf).
SegmentClass(bucket) ==
    IF bucket.total = 0 THEN "warning"
    ELSE IF bucket.ok * 10 >= 9 * bucket.total THEN "success"
    ELSE IF bucket.ok * 2 >= bucket.total THEN "warning"
    ELSE "fail"

\* renderTimeline(agg): one row per target, one segment per bucket.
RenderTimeline(agg) ==
    [t \in agg.targets |->
        [i \in DOMAIN agg.buckets[t] |-> SegmentClass(agg.buckets[t][i])]]

-----------------------------------------------------------------------------
(* Failure-correlation report: the second script of export_daily_csv.sh *)

\* TOL_MS=1500
TolMs == 1500

\* TARGET_KEY, as the SQL spells it.
TargetKey == "1.1.1.1"

\* The targets of the four CASE columns of the SQL.
TargetsOther == {"8.8.8.8", "google.com", "frontier.com", "192.168.2.1"}

\* p2.target = X AND p2.ts BETWEEN f.ts - TOL AND f.ts + TOL
Near(table, fts, X) ==
    {p \in Rows(table) : p.target = X /\ p.ts >= fts - TolMs /\ p.ts <= fts + TolMs}

\* Mutant: the two WHEN branches in the other order.
CellOfFailFirst(table, fts, X) ==
    IF \E p \in Near(table, fts, X) : p.alive = 0 THEN "fail"
    ELSE IF \E p \in Near(table, fts, X) : p.alive = 1 THEN "success"
    ELSE "no_data"

\* CASE WHEN EXISTS (... AND p2.alive = 1) THEN 'success'
\*      WHEN EXISTS (... AND p2.alive = 0) THEN 'fail' ELSE 'no_data' END
CellOf(table, fts, X) ==
    IF \E p \in Near(table, fts, X) : p.alive = 1 THEN "success"
    ELSE IF \E p \in Near(table, fts, X) : p.alive = 0 THEN "fail"
    ELSE "no_data"

\* Mutant: the WHERE clause without f.alive = 0.
IsPrimaryFailureAnyAlive(f, startMs) ==
    /\ f.target = TargetKey
    /\ f.ts >= startMs
    /\ f.ts < startMs + DayMs

\* WHERE f.target = '1.1.1.1' AND f.alive = 0
\*   AND f.ts >= START_MS AND f.ts < END_MS
IsPrimaryFailure(f, startMs) ==
    /\ f.target = TargetKey
    /\ f.alive = 0
    /\ f.ts >= startMs
    /\ f.ts < startMs + DayMs

\* The report's rows: SELECT ... FROM pings f WHERE ... ORDER BY f.ts ASC.
\* datetime is datetime(f.ts/1000, 'unixepoch', 'localtime') as the epoch
\* second it renders; ts is the f.ts the row was computed from (not a
\* column of the file).
FailureRows(table, startMs) ==
    LET fs == SortByTs(SelectSeq(table, LAMBDA f : IsPrimaryFailure(f, startMs)))
    IN [i \in DOMAIN fs |->
          [ts       |-> fs[i].ts,
           datetime |-> fs[i].ts \div 1000,
           key      |-> "fail",
           cells    |-> [X \in TargetsOther |-> CellOf(table, fs[i].ts, X)]]]

-----------------------------------------------------------------------------
(* State machine *)

NoCsv == [written |-> FALSE, ok |-> FALSE, attempts |-> 0, start |-> 0, table |-> <<>>,
          rows |-> <<>>]

\* A line of the process's stderr, with the callback (its tick's ts and
\* target) that wrote it.
LogEntry(msg, ts, target) == [msg |-> msg, ts |-> ts, target |-> target]

\* The scheduler callback of one completed probe (startPingLoop, the function
\* handed to runPingCommand), for the ts read at the tick.
\*  better-sqlite3: insertPingStmt.run(...) inside try/catch; dbOk = FALSE is
\*    a failed insert (SQLITE_BUSY, disk full), caught and logged.
\*  sqlite3: db.prepare(...) returns a Statement, and db.run(stmt, [...], cb)
\*    is given that object where node-sqlite3 takes the SQL text: its
\*    Statement constructor throws TypeError('SQL query expected'). Nothing
\*    catches it in the exec callback, so the process ends.
PingCallback(ts, target, raw, dbOk) ==
    IF variant = "better-sqlite3"
    THEN /\ pings' = IF dbOk THEN InsertPing(pings, ts, target, RunPingCommand(raw))
                     ELSE pings
         /\ errlog' = IF dbOk THEN errlog
                      ELSE Append(errlog, LogEntry("DB insert ping error", ts, target))
         /\ running' = running
    ELSE /\ pings' = pings
         /\ errlog' = Append(errlog, LogEntry("TypeError: SQL query expected", ts, target))
         /\ running' = FALSE

\* export_daily_csv.sh DAY: sqlite3 ... > OUTFILE. The redirection empties
\* the day's file, and the SQL's output on the table as it is fills it.
\* dbOk = FALSE: sqlite3 fails (database is locked), set -e ends the script
\* and the file stays empty. table is the store as the query read it.
\* attempts counts the invocations of sqlite3: the script has one, outside
\* any loop.
ExportDaily(startMs, dbOk) ==
    /\ csv' = [written |-> TRUE, ok |-> dbOk, attempts |-> 1, start |-> startMs,
               table |-> IF dbOk THEN pings ELSE <<>>,
               rows |-> IF dbOk THEN ExportRows(pings, startMs) ELSE <<>>]
    /\ UNCHANGED <<serverVars, now, pings, traces, errlog, failures, clientVars>>

\* A response: status and body as sent (json: the body is JSON; ok, since,
\* rows: its fields), with the request it answers (q), the clock (at) and the
\* store (table) when the handler ran, and whether its SELECT failed.
NoQuery == [hoursNum |-> FALSE, h100 |-> 0, limitKind |-> "absent", limit |-> 0]

NoResponse == [received |-> FALSE, failed |-> FALSE, status |-> 0, json |-> FALSE,
               ok |-> FALSE, since |-> 0, rows |-> <<>>,
               q |-> NoQuery, at |-> 0, table |-> <<>>]

NoTimeline == [drawn |-> FALSE, entries |-> <<>>, agg |-> [start |-> 0, targets |-> {}, buckets |-> <<>>],
               segments |-> <<>>]

\* app.get('/api/pings', ...) answering a request with query q. dbOk = FALSE
\* is a failing SELECT: the sqlite3 server's db.all callback answers
\* {ok:false, err}; the better-sqlite3 server's handler has no try/catch, the
\* exception goes to express, which answers 500 with its error page.
GetPings(q, dbOk) ==
    /\ running
    /\ apiPings' =
         IF dbOk /\ ~LimitRefused(q)
         THEN [received |-> TRUE, failed |-> FALSE, status |-> 200, json |-> TRUE,
               ok |-> TRUE, since |-> SinceOf(now, q),
               rows |-> SelectPingsSince(pings, SinceOf(now, q), LimitOf(q)),
               q |-> q, at |-> now, table |-> pings]
         ELSE [received |-> TRUE, failed |-> TRUE,
               status |-> IF variant = "sqlite3" THEN 200 ELSE 500,
               json |-> variant = "sqlite3",
               ok |-> FALSE, since |-> 0, rows |-> <<>>,
               q |-> q, at |-> now, table |-> pings]
    /\ UNCHANGED <<serverVars, now, pings, traces, errlog, reportVars, apiStatus, apiTraces, timeline>>

\* refreshAll of app.js, from the /api/pings response on: entries =
\* pingsResp.rows || [], buildAggregatedTimeline, renderTimeline. A response
\* that is not JSON (express's 500 page) makes fetchJson throw: refreshAll
\* catches it and draws nothing. entries is what the timeline was built from.
\* clock is the Date.now() of the browser, which is not the server's clock.
DrawTimelineAt(clock) ==
    /\ apiPings.received
    /\ apiPings.status = 200
    /\ LET agg == BuildAggregatedTimeline(apiPings.rows, clock)
       IN timeline' = [drawn |-> TRUE, entries |-> apiPings.rows, agg |-> agg, segments |-> RenderTimeline(agg)]
    /\ UNCHANGED <<serverVars, now, pings, traces, errlog, reportVars, apiPings, apiStatus, apiTraces>>

\* The dashboard on a browser whose clock agrees with the server's.
DrawTimeline == DrawTimelineAt(now)

\* The last run of the failure report (ran: there was one): what each attempt
\* would meet, the attempts made, the seconds slept in between, and the
\* script's exit status.
NoRun == [ran |-> FALSE, outcomes |-> <<>>, attempts |-> 0, slept |-> 0, rc |-> 0]

\* The day's report (written: the file exists) and, in tmp, whether the
\* script has left its temporary file behind.
NoFailures == [written |-> FALSE, start |-> 0, table |-> <<>>, rows |-> <<>>, tmp |-> FALSE,
               run |-> NoRun]

\* ATTEMPTS=5
Attempts == 5

\* What the k-th invocation of sqlite3 meets when the database stays locked
\* (past busy_timeout) for the first locked attempts and the attempts after
\* them end as last does: "ok", "locked", "error" (another message on
\* stderr) or "failed" (a non-zero status and nothing on stderr).
Outcomes(locked, last) == [k \in 1..Attempts |-> IF k <= locked THEN "locked" ELSE last]

\* for attempt in $(seq 1 $ATTEMPTS): the loop from attempt on, after slept
\* seconds of backing off. A success leaves the loop; 'database is locked'
\* sleeps attempt*2 seconds and goes on; another error on stderr ends the
\* script with sqlite3's status; after the last attempt the script exits 1.
RECURSIVE RetryLoop(_, _, _)
RetryLoop(outcomes, attempt, slept) ==
    IF attempt > Attempts
    THEN [ran |-> TRUE, outcomes |-> outcomes, attempts |-> Attempts, slept |-> slept, rc |-> 1]
    ELSE IF outcomes[attempt] = "ok"
    THEN [ran |-> TRUE, outcomes |-> outcomes, attempts |-> attempt, slept |-> slept, rc |-> 0]
    ELSE IF outcomes[attempt] = "locked"
    THEN RetryLoop(outcomes, attempt + 1, slept + attempt * 2)
    ELSE IF outcomes[attempt] = "error"
    THEN [ran |-> TRUE, outcomes |-> outcomes, attempts |-> attempt, slept |-> slept, rc |-> 1]
    ELSE RetryLoop(outcomes, attempt + 1, slept)

\* Mutant: sqlite3's output is redirected to the day's report itself, as the
\* daily export does: every attempt empties the report first.
FailureReportInPlace(startMs, outcomes) ==
    LET run == RetryLoop(outcomes, 1, 0)
    IN /\ failures' = IF run.rc = 0
                       THEN [written |-> TRUE, start |-> startMs, table |-> pings,
                             rows |-> FailureRows(pings, startMs), tmp |-> FALSE,
                             run |-> run]
                       ELSE [written |-> TRUE, start |-> startMs, table |-> <<>>,
                             rows |-> <<>>, tmp |-> FALSE, run |-> run]
       /\ UNCHANGED <<serverVars, now, pings, traces, errlog, csv, clientVars>>

\* generate-failures-report.sh DAY: every attempt redirects the query's
\* output to the temporary file OUTFILE_TMP. After an attempt that succeeded
\* mv -f puts the temporary file in the place of the day's report; after an
\* error other than the lock, and when no attempt succeeded, rm -f removes
\* the temporary file and the script exits, the report left as it was.
\* table is the store as the successful attempt read it.
FailureReport(startMs, outcomes) ==
    LET run == RetryLoop(outcomes, 1, 0)
    IN /\ failures' = IF run.rc = 0
                       THEN [written |-> TRUE, start |-> startMs, table |-> pings,
                             rows |-> FailureRows(pings, startMs), tmp |-> FALSE,
                             run |-> run]
                       ELSE [failures EXCEPT !.tmp = FALSE, !.run = run]
       /\ UNCHANGED <<serverVars, now, pings, traces, errlog, csv, clientVars>>

\* The callback of one completed traceroute (startTracerouteLoop, the
\* function handed to runTracerouteCommand), for the ts read by runAll. The
\* two servers insert as they do in PingCallback.
TraceCallback(ts, target, dbOk) ==
    IF variant = "better-sqlite3"
    THEN /\ traces' = IF dbOk THEN InsertTrace(traces, ts, target) ELSE traces
         /\ errlog' = IF dbOk THEN errlog
                      ELSE Append(errlog, LogEntry("DB insert trace error", ts, target))
         /\ running' = running
    ELSE /\ traces' = traces
         /\ errlog' = Append(errlog, LogEntry("TypeError: SQL query expected", ts, target))
         /\ running' = FALSE

\* LIMIT n on the rows s (a negative LIMIT is no limit in SQLite).
Limit(s, n) == IF n < 0 \/ n >= Len(s) THEN s ELSE SubSeq(s, 1, n)

\* ORDER BY ts DESC on rows taken in id order. SQL leaves the order of rows
\* of equal ts open (the traces of one runAll cycle carry the same ts):
\* newestFirst gives them in descending id order (a backward scan of
\* idx_tr_ts), otherwise they stay in id order (a sort of the table scan).
RECURSIVE SortByTsDesc(_, _)
SortByTsDesc(rows, newestFirst) ==
    IF rows = <<>> THEN <<>>
    ELSE LET r      == rows[Len(rows)]
             sorted == SortByTsDesc(SubSeq(rows, 1, Len(rows) - 1), newestFirst)
             k      == Cardinality({i \in DOMAIN sorted :
                                      IF newestFirst THEN sorted[i].ts > r.ts
                                      ELSE sorted[i].ts >= r.ts})
         IN SubSeq(sorted, 1, k) \o <<r>> \o SubSeq(sorted, k + 1, Len(sorted))

\* const limit = parseInt(req.query.limit || '10', 10)
TraceLimitOf(q) == IF q.limitKind = "absent" THEN 10 ELSE q.limit

\* app.get('/api/traceroutes', ...) answering a request with query q:
\* SELECT * FROM traceroutes ORDER BY ts DESC LIMIT ?. A failing SELECT is
\* answered as in GetPings.
GetTraceroutes(q, dbOk) ==
    /\ running
    /\ IF dbOk /\ ~LimitRefused(q)
       THEN \E newestFirst \in BOOLEAN :
               apiTraces' = [received |-> TRUE, failed |-> FALSE, status |-> 200,
                             json |-> TRUE, ok |-> TRUE, since |-> 0,
                             rows |-> Limit(SortByTsDesc(traces, newestFirst),
                                            TraceLimitOf(q)),
                             q |-> q, at |-> now, table |-> traces]
       ELSE apiTraces' = [received |-> TRUE, failed |-> TRUE,
                          status |-> IF variant = "sqlite3" THEN 200 ELSE 500,
                          json |-> variant = "sqlite3",
                          ok |-> FALSE, since |-> 0, rows |-> <<>>,
                          q |-> q, at |-> now, table |-> traces]
    /\ UNCHANGED <<serverVars, now, pings, traces, errlog, reportVars, apiPings,
                   apiStatus, timeline>>

\* null, where a row is expected.
NoRow == [id |-> 0, ts |-> 0, target |-> "", alive |-> NULL, time_ms |-> NULL,
          ttl |-> NULL, raw |-> RawLost]

\* SELECT * FROM pings WHERE target = ? ORDER BY ts DESC LIMIT 1, then
\* row || null: a row of the target with the greatest ts (any of them, when
\* several rows carry it), null when the target has no row.
LatestChoices(table, target) ==
    LET R == {p \in Rows(table) : p.target = target}
    IN IF R = {} THEN {NoRow}
       ELSE {p \in R : \A r \in R : r.ts <= p.ts}

NoStatus == [received |-> FALSE, failed |-> FALSE, status |-> 0, json |-> FALSE,
             ok |-> FALSE, targets |-> <<>>, latest |-> <<>>, sent |-> 0,
             table |-> <<>>]

\* app.get('/api/status', ...): one lookup per target; fails are the
\* targets whose lookup fails.
\*  sqlite3: each db.get callback counts itself in processed and stores
\*    row || null without looking at err; the callback that makes processed
\*    equal TARGETS.length sends the response (sent: how many did).
\*  better-sqlite3: the lookups run in the handler; the first that throws
\*    leaves the handler, and express answers 500 with its error page.
GetStatus(fails) ==
    /\ running
    /\ IF variant = "better-sqlite3" /\ fails # {}
       THEN apiStatus' = [received |-> TRUE, failed |-> TRUE, status |-> 500,
                          json |-> FALSE, ok |-> FALSE, targets |-> <<>>,
                          latest |-> <<>>, sent |-> 1, table |-> pings]
       ELSE \E latest \in [TargetSet -> Rows(pings) \cup {NoRow}] :
               /\ \A t \in TargetSet :
                     latest[t] \in IF t \in fails THEN {NoRow}
                                   ELSE LatestChoices(pings, t)
               /\ apiStatus' =
                    [received |-> TRUE, failed |-> fails # {}, status |-> 200,
                     json |-> TRUE, ok |-> TRUE, targets |-> TARGETS,
                     latest |-> latest,
                     sent |-> Cardinality({processed \in 1..Len(TARGETS) :
                                             processed = Len(TARGETS)}),
                     table |-> pings]
    /\ UNCHANGED <<serverVars, now, pings, traces, errlog, reportVars, apiPings,
                   apiTraces, timeline>>

-----------------------------------------------------------------------------
(* Probe scheduler: startPingLoop *)

\* Mutant: the stagger of the trace loop (idx * 500).
TimeoutDelayWide(idx) == idx * 500

\* setTimeout(..., idx * 200), idx the target's 0-based index.
TimeoutDelay(idx) == idx * 200

\* Mutant: two ticks a second.
IntervalMsHalved == 1000 \div 2

\* setInterval(..., 1000)
IntervalMs == 1000

\* exec(cmd, { timeout: 5000, ... }): the probe is killed, and its callback
\* runs, when it has not ended by then.
ExecTimeoutMs == 5000

\* The timer of target i (1-based) fires. Timers are taken to fire at the
\* instant they are due. The setTimeout callback only starts the interval;
\* an interval callback reads the clock and starts a probe, whatever probes
\* are still in flight.
Tick(i) ==
    /\ running
    /\ timers[i].due = now
    /\ timers' = [timers EXCEPT ![i] = [phase |-> "interval", due |-> now + IntervalMs]]
    /\ IF timers[i].phase = "interval"
       THEN /\ ticks' = ticks \cup {[target |-> TARGETS[i], ts |-> now]}
            /\ inflight' = inflight \cup {[target |-> TARGETS[i], ts |-> now]}
       ELSE UNCHANGED <<ticks, inflight>>
    /\ UNCHANGED <<variant, running, now, bootTs, tracer, host, pings, traces, errlog,
                   reportVars, clientVars>>

\* The probe p ends (by itself or killed at its timeout) with output raw, and
\* its callback runs. Where there is no ping command the shell's "ping: not
\* found" is all the output there is: none of the patterns matches it.
Complete(p, raw, dbOk) ==
    /\ running
    /\ p \in inflight
    /\ host.ping \/ raw = RawLost
    /\ inflight' = inflight \ {p}
    /\ PingCallback(p.ts, p.target, raw, dbOk)
    /\ UNCHANGED <<variant, now, bootTs, timers, ticks, tracer, host, traces, reportVars,
                   clientVars>>

\* The instants at which something of the ping loop is due: a timer, or the
\* timeout of a probe.
DueTimes ==
    {timers[i].due : i \in DOMAIN timers} \cup {p.ts + ExecTimeoutMs : p \in inflight}

\* Time passes to the next of the instants dues, once every timer due now has
\* fired and every command at its timeout has been ended. The clock does not
\* stop with the process: once it has ended, nothing is due any more.
AdvanceOver(dues, horizon) ==
    /\ host.started
    /\ IF running
       THEN /\ \A d \in dues : d > now
            /\ \E d \in dues :
                  /\ \A e \in dues : d <= e
                  /\ d <= horizon
                  /\ now' = d
       ELSE /\ now < horizon
            /\ now' = horizon
    /\ UNCHANGED <<serverVars, pings, traces, errlog, reportVars, clientVars>>

\* Time passes for the ping loop.
Advance(horizon) == AdvanceOver(DueTimes, horizon)

-----------------------------------------------------------------------------
(* Trace scheduler: startTracerouteLoop *)

\* setTimeout(..., idx * 500), idx the target's 0-based index.
TraceDelay(idx) == idx * 500

\* setInterval(runAll, 5 * 60 * 1000)
TraceCycleMs == 5 * 60 * 1000

\* Mutant: a traceroute may run for six minutes.
TraceTimeoutMsLong == 6 * 60 * 1000

\* exec(cmd, { timeout: 120000, ... }) of runTracerouteCommand.
TraceTimeoutMs == 120000

\* The trace loop before startTracerouteLoop: cycleDue is when the interval
\* next calls runAll, cycles the clock values runAll has read, pending the
\* setTimeouts not fired yet, inflight the traceroutes started and not called
\* back yet, started every traceroute started so far with its start time.
NoTracer == [cycleDue |-> 0, cycles |-> {}, pending |-> {}, inflight |-> {}, started |-> {}]

\* runAll at clock value clock: const ts = Date.now(), then one setTimeout
\* per target, all closing over that ts. startTracerouteLoop calls it once,
\* then the interval calls it every TraceCycleMs.
RunAll(tr, clock) ==
    [tr EXCEPT !.cycleDue = clock + TraceCycleMs,
               !.cycles   = @ \cup {clock},
               !.pending  = @ \cup {[idx |-> i - 1, target |-> TARGETS[i], ts |-> clock,
                                      due |-> clock + TraceDelay(i - 1)] : i \in DOMAIN TARGETS}]

\* The interval of the trace loop fires: runAll, whatever traceroutes of
\* earlier cycles are pending or in flight.
TraceCycle ==
    /\ running
    /\ tracer.cycleDue = now
    /\ tracer' = RunAll(tracer, now)
    /\ UNCHANGED <<variant, running, now, bootTs, timers, ticks, inflight, host, pings,
                   traces, errlog, reportVars, clientVars>>

\* Mutant: the traceroute is stamped with the clock at its own start.
TraceStartStampsNow(t) ==
    /\ running
    /\ t \in tracer.pending
    /\ t.due = now
    /\ tracer' = [tracer EXCEPT
                    !.pending  = @ \ {t},
                    !.inflight = @ \cup {[target |-> t.target, ts |-> now, at |-> now]},
                    !.started  = @ \cup {[target |-> t.target, ts |-> now, at |-> now]}]
    /\ UNCHANGED <<variant, running, now, bootTs, timers, ticks, inflight, host, pings,
                   traces, errlog, reportVars, clientVars>>

\* The setTimeout of the pending trace t fires: runTracerouteCommand starts
\* the traceroute.
TraceStart(t) ==
    /\ running
    /\ t \in tracer.pending
    /\ t.due = now
    /\ tracer' = [tracer EXCEPT
                    !.pending  = @ \ {t},
                    !.inflight = @ \cup {[target |-> t.target, ts |-> t.ts, at |-> now]},
                    !.started  = @ \cup {[target |-> t.target, ts |-> t.ts, at |-> now]}]
    /\ UNCHANGED <<variant, running, now, bootTs, timers, ticks, inflight, host, pings,
                   traces, errlog, reportVars, clientVars>>

\* The traceroute t ends (by itself or killed at its timeout), and its
\* callback runs with the ts of its cycle.
TraceComplete(t, dbOk) ==
    /\ running
    /\ t \in tracer.inflight
    /\ tracer' = [tracer EXCEPT !.inflight = @ \ {t}]
    /\ TraceCallback(t.ts, t.target, dbOk)
    /\ UNCHANGED <<variant, now, bootTs, timers, ticks, inflight, host, pings,
                   reportVars, clientVars>>

\* The instants at which something of the trace loop is due.
TraceDueTimes ==
    {tracer.cycleDue} \cup {t.due : t \in tracer.pending}
        \cup {t.at + TraceTimeoutMs : t \in tracer.inflight}

\* Time passes for the trace loop.
AdvanceTraces(horizon) == AdvanceOver(TraceDueTimes, horizon)

\* Time passes for both loops.
AdvanceBoth(horizon) == AdvanceOver(DueTimes \cup TraceDueTimes, horizon)

-----------------------------------------------------------------------------
(* Startup *)

\* node server.js on a machine described by host: store is whether monitor.db
\* can be opened or created, ping whether the ping command exists.
\*  The store cannot be opened: new Database(...) throws while the module is
\*    loaded (better-sqlite3), or the Database object emits an 'error' event
\*    nobody listens to (sqlite3): an uncaught exception, node exits with
\*    status 1, and app.listen's callback has started no loop.
\*  Otherwise app.listen's callback runs startPingLoop and
\*    startTracerouteLoop. Nothing looks for the ping command: exec reports
\*    its absence to the callback of each probe, which ignores err.
Startup ==
    /\ ~host.started
    /\ host' = [host EXCEPT !.started = TRUE,
                            !.exitCode = IF host.store THEN NULL ELSE 1]
    /\ running' = host.store
    /\ bootTs' = now
    /\ timers' = IF host.store
                 THEN [i \in DOMAIN TARGETS |->
                          [phase |-> "timeout", due |-> now + TimeoutDelay(i - 1)]]
                 ELSE timers
    /\ tracer' = IF host.store THEN RunAll(NoTracer, now) ELSE tracer
    /\ UNCHANGED <<variant, now, ticks, inflight, pings, traces, errlog, reportVars,
                   clientVars>>

-----------------------------------------------------------------------------
(* Bounds and input sets *)

\* Samples taken at most in SpecExport.
MaxRows == 2

\* The day exported starts at local midnight, a multiple of a minute.
DayStart == DayMs

\* A tick of target's timer at clock value ts whose probe has completed with
\* output raw: the interval callback and the probe callback together.
Sample(ts, target, raw, dbOk, max) ==
    /\ running
    /\ Len(pings) + Len(errlog) < max
    /\ PingCallback(ts, target, raw, dbOk)
    /\ UNCHANGED <<variant, now, bootTs, timers, ticks, inflight, tracer, host, traces,
                   reportVars, clientVars>>

\* A traceroute of target started in the runAll cycle of clock value ts has
\* completed: its callback.
TraceSample(ts, target, dbOk, max) ==
    /\ running
    /\ Len(traces) + Len(errlog) < max
    /\ TraceCallback(ts, target, dbOk)
    /\ UNCHANGED <<variant, now, bootTs, timers, ticks, inflight, tracer, host, pings,
                   reportVars, clientVars>>

\* The server has just been started at clock value clock on a store that
\* holds table (monitor.db outlives the process: CREATE TABLE IF NOT EXISTS).
InitWith(table, clock) ==
    /\ variant \in {"sqlite3", "better-sqlite3"}
    /\ running = TRUE
    /\ now = clock
    /\ bootTs = clock
    /\ timers = [i \in DOMAIN TARGETS |->
                    [phase |-> "timeout", due |-> clock + TimeoutDelay(i - 1)]]
    /\ ticks = {}
    /\ inflight = {}
    /\ tracer = RunAll(NoTracer, clock)
    /\ host = [ping |-> TRUE, store |-> TRUE, started |-> TRUE, exitCode |-> NULL]
    /\ pings = table
    /\ traces = <<>>
    /\ errlog = <<>>
    /\ csv = NoCsv
    /\ failures = NoFailures
    /\ apiPings = NoResponse
    /\ apiStatus = NoStatus
    /\ apiTraces = NoResponse
    /\ timeline = NoTimeline

-----------------------------------------------------------------------------
(* SpecExport: samples around the edges of one day, then the daily export *)

\* Tick times: the ms before the day, its first ms, the last ms of its first
\* minute, its last ms, and the first ms after it.
ExportTs == {DayStart - 1, DayStart, DayStart + BucketMs - 1,
             DayStart + DayMs - 1, DayStart + DayMs}

ExportTargets == {"1.1.1.1", "8.8.8.8"}

NextExport ==
    \/ \E ts \in ExportTs, t \in ExportTargets : Sample(ts, t, RawReply(10), TRUE, MaxRows)
    \/ \E dbOk \in BOOLEAN : ExportDaily(DayStart, dbOk)

SpecExport == InitWith(<<>>, DayStart) /\ [][NextExport]_vars

\* The number of data rows of an export: the sizes of its groups, summed.
RECURSIVE TargetSum(_, _)
TargetSum(group, T) ==
    IF T = {} THEN 0
    ELSE LET t == CHOOSE u \in T : TRUE
         IN Cardinality(group[t]) + TargetSum(group, T \ {t})

RECURSIVE GroupSum(_, _, _)
GroupSum(rows, lo, hi) ==
    IF lo > hi THEN 0
    ELSE IF lo = hi
         THEN TargetSum(rows[lo], DOMAIN rows[lo])
         ELSE LET mid == (lo + hi) \div 2
              IN GroupSum(rows, lo, mid) + GroupSum(rows, mid + 1, hi)

DataRowCount(rows) == GroupSum(rows, 0, Cardinality(DOMAIN rows) - 1)

\* C3: whatever the pings table holds, the daily export (when sqlite3 ran
\* the query) has exactly
\* 1440 x targetCount data rows: for each of the 1440 minute slots of the day
\* and each configured target exactly one row, carrying that slot's minute and
\* that target.
C3_ExportOneRowPerSlot ==
    csv.ok =>
        /\ DataRowCount(csv.rows) = 1440 * Len(TARGETS)
        /\ DOMAIN csv.rows = 0..1439
        /\ \A idx \in DOMAIN csv.rows :
              /\ DOMAIN csv.rows[idx] = TargetSet
              /\ \A t \in TargetSet :
                    /\ Cardinality(csv.rows[idx][t]) = 1
                    /\ \A r \in csv.rows[idx][t] :
                          /\ r.minute = csv.start + idx * 60000
                          /\ r.target = t

\* An export has run on a store with two samples in one slot, a sample in
\* the last slot or outside the day, and slots without samples.
C3_Witness ==
    /\ csv.ok
    /\ Len(pings) = 2
    /\ \E t \in TargetSet : \E r \in csv.rows[0][t] : r.total = 2
    /\ \E t \in TargetSet : \E r \in csv.rows[1][t] : r.total = 0

\* C13: in the daily export every (target, minute) slot in which the store
\* has no sample has a row with success_count 0, total 0, ratio 0.000, an
\* empty avg_ms and result no_data, whatever the other slots hold.
C13_EmptySlotIsNoData ==
    csv.ok =>
       \A idx \in DOMAIN csv.rows : \A t \in DOMAIN csv.rows[idx] :
          (\A p \in Rows(csv.table) :
              ~(/\ p.target = t
                /\ p.ts >= csv.start + idx * 60000
                /\ p.ts < csv.start + (idx + 1) * 60000))
          => /\ csv.rows[idx][t] # {}
             /\ \A r \in csv.rows[idx][t] :
                   /\ r.success_count = 0
                   /\ r.total = 0
                   /\ r.success_ratio = 0
                   /\ r.avg_ms = NULL
                   /\ r.result = "no_data"

\* C13 witness: an export of a day without samples, from a store whose two
\* samples are the ms before the day and the ms after it: every row is a
\* no_data row.
C13_Witness ==
    /\ csv.ok
    /\ Len(csv.table) = 2
    /\ \E i, j \in DOMAIN csv.table :
          /\ csv.table[i].ts = csv.start - 1
          /\ csv.table[j].ts = csv.start + DayMs
    /\ \A idx \in DOMAIN csv.rows : \A t \in DOMAIN csv.rows[idx] :
          \A r \in csv.rows[idx][t] : r.total = 0 /\ r.result = "no_data"

-----------------------------------------------------------------------------
(* SpecClassify: one bucket holding every (successCount, totalSamples) pair, *)
(* then the daily export and the dashboard                                   *)

\* Samples one bucket holds at most.
MaxSamples == 10

\* The tick time of the bucket's samples: inside the day's first minute.
ClassifyTs == DayStart + BucketMs \div 2

\* The clock when the reports run: an hour into the day.
ClassifyNow == DayStart + 60 * BucketMs

\* The store after k answered and m lost probes of 1.1.1.1 ticked at ClassifyTs.
RECURSIVE Filled(_, _)
Filled(k, m) ==
    IF m > 0 THEN InsertPing(Filled(k, m - 1), ClassifyTs, "1.1.1.1", RunPingCommand(RawLost))
    ELSE IF k > 0 THEN InsertPing(Filled(k - 1, 0), ClassifyTs, "1.1.1.1",
                                  RunPingCommand(RawReply(10)))
    ELSE <<>>

InitClassify ==
    \E k \in 0..MaxSamples, m \in 0..MaxSamples :
        /\ k + m <= MaxSamples
        /\ InitWith(Filled(k, m), ClassifyNow)

NextClassify ==
    \/ GetPings(DashboardQuery, TRUE)
    \/ DrawTimeline
    \/ ExportDaily(DayStart, TRUE)

SpecClassify == InitClassify /\ [][NextClassify]_vars

\* P holds of every row of the last export.
AllCsvRows(P(_)) ==
    \A idx \in DOMAIN csv.rows : \A t \in DOMAIN csv.rows[idx] :
        \A r \in csv.rows[idx][t] : P(r)

SomeCsvRow(P(_)) ==
    \E idx \in DOMAIN csv.rows : \E t \in DOMAIN csv.rows[idx] :
        \E r \in csv.rows[idx][t] : P(r)

\* P holds of every (bucket, segment class) pair of the timeline last drawn.
AllCells(P(_, _)) ==
    \A t \in DOMAIN timeline.segments : \A i \in DOMAIN timeline.segments[t] :
        P(timeline.agg.buckets[t][i], timeline.segments[t][i])

SomeCell(P(_, _)) ==
    \E t \in DOMAIN timeline.segments : \E i \in DOMAIN timeline.segments[t] :
        P(timeline.agg.buckets[t][i], timeline.segments[t][i])

\* The classes the dashboard gave to the buckets that satisfy P.
ClassesOf(P(_)) ==
    UNION {{timeline.segments[t][i] :
              i \in {j \in DOMAIN timeline.segments[t] : P(timeline.agg.buckets[t][j])}} :
           t \in DOMAIN timeline.segments}

\* C1: for every (target, minute bucket) with totalSamples > 0, the export's
\* result and the dashboard's segment class follow the same thresholds on
\* ratio = successCount / totalSamples: UP / success iff ratio >= 0.9,
\* DEGRADED / warning iff 0.5 <= ratio < 0.9, DOWN / fail iff ratio < 0.5
\* (ratio >= 9/10 is 10 * successCount >= 9 * totalSamples).
C1_SameThresholds ==
    /\ AllCsvRows(LAMBDA r :
          r.total > 0 =>
             /\ r.result = "UP" <=> 10 * r.success_count >= 9 * r.total
             /\ r.result = "DEGRADED" <=>
                   (2 * r.success_count >= r.total /\ 10 * r.success_count < 9 * r.total)
             /\ r.result = "DOWN" <=> 2 * r.success_count < r.total)
    /\ AllCells(LAMBDA b, class :
          b.total > 0 =>
             /\ class = "success" <=> 10 * b.ok >= 9 * b.total
             /\ class = "warning" <=> (2 * b.ok >= b.total /\ 10 * b.ok < 9 * b.total)
             /\ class = "fail" <=> 2 * b.ok < b.total)

\* Both reports have classified a bucket of ratio exactly 0.9 (9 of 10).
C1_Witness ==
    /\ SomeCsvRow(LAMBDA r : r.total = 10 /\ r.success_count = 9 /\ r.result = "UP")
    /\ SomeCell(LAMBDA b, class : b.total = 10 /\ b.ok = 9 /\ class = "success")

\* C2 (as claimed): in the export and in the dashboard a bucket gets the
\* no-data state iff it has no sample: the state of a zero-sample bucket is
\* given to no bucket that has a sample.
C2_NoDataIffZeroSamples ==
    /\ AllCsvRows(LAMBDA r : r.result = "no_data" <=> r.total = 0)
    /\ ClassesOf(LAMBDA b : b.total = 0) \cap ClassesOf(LAMBDA b : b.total > 0) = {}

-----------------------------------------------------------------------------
(* SpecSched: the scheduler from process start over the first ticks *)

\* How far the clock runs after start, in steps of the 200 ms stagger.
HorizonSteps == 10

SchedHorizon == DayStart + HorizonSteps * TimeoutDelay(1)

SchedRaw == {RawReply(10), RawLost}

NextSched ==
    \/ \E i \in DOMAIN TARGETS : Tick(i)
    \/ \E p \in inflight, raw \in SchedRaw, dbOk \in BOOLEAN : Complete(p, raw, dbOk)
    \/ Advance(SchedHorizon)

SpecSched == InitWith(<<>>, DayStart) /\ [][NextSched]_vars


\* C4: no probe outcome and no failed insert stops a timer or ends the
\* process: the server is running in every reachable state.
C4_NoTerminalSchedulerState ==
    running

\* The process can stay up: with better-sqlite3 it is running in every
\* reachable state.
BetterSqlite3KeepsRunning ==
    variant = "better-sqlite3" => running

\* C5: every step in which a probe completes either appends exactly one row
\* with the tick's ts and target, or logs the failed insert and stores
\* nothing; the process runs on and the other probes stay in flight.
C5_EveryOutcomeInsertedOnce ==
    [][\A p \in inflight :
         p \notin inflight' =>
           /\ running'
           /\ inflight' = inflight \ {p}
           /\ \/ /\ Len(pings') = Len(pings) + 1
                 /\ SubSeq(pings', 1, Len(pings)) = pings
                 /\ pings'[Len(pings')].ts = p.ts
                 /\ pings'[Len(pings')].target = p.target
                 /\ errlog' = errlog
              \/ /\ pings' = pings
                 /\ errlog' = Append(errlog,
                                LogEntry("DB insert ping error", p.ts, p.target))]_vars

\* The instants at which target i (1-based) has ticked.
TicksOf(i) == {k.ts : k \in {x \in ticks : x.target = TARGETS[i]}}

\* The ticks of target i are first + 1000 * k for k >= 0, and while the
\* process runs none of those that are past is missing.
TicksFrom(i, first) ==
    /\ \A t \in TicksOf(i) : t >= first /\ (t - first) % 1000 = 0
    /\ running =>
         \A k \in 0..HorizonSteps :
            first + 1000 * k < now => first + 1000 * k \in TicksOf(i)

\* A probe of every tick was started: it is in flight or its callback ran.
EveryTickProbed ==
    \A x \in ticks :
       \/ x \in inflight
       \/ \E j \in DOMAIN pings : pings[j].ts = x.ts /\ pings[j].target = x.target
       \/ \E j \in DOMAIN errlog : errlog[j].ts = x.ts /\ errlog[j].target = x.target

-----------------------------------------------------------------------------
(* SpecRead: the scheduler with a client reading /api/pings *)

NextRead ==
    \/ \E i \in DOMAIN TARGETS : Tick(i)
    \/ \E p \in inflight : Complete(p, RawReply(10), TRUE)
    \/ Advance(SchedHorizon)
    \/ GetPings(DashboardQuery, TRUE)

SpecRead == InitWith(<<>>, DayStart) /\ [][NextRead]_vars

\* rows[i], i in the domain of rows, of one target are in non-decreasing ts
\* order.
TsOrderedPerTarget(rows) ==
    \A i, j \in DOMAIN rows :
       (i < j /\ rows[i].target = rows[j].target) => rows[i].ts <= rows[j].ts

\* C7 as stated: the samples of one target are appended to the store in
\* non-decreasing ts order, and GET /api/pings returns them in that order.
C7_AppendedAndReadInTsOrder ==
    /\ TsOrderedPerTarget(pings)
    /\ apiPings.ok => TsOrderedPerTarget(apiPings.rows)

\* C7 amended: GET /api/pings returns the samples of one target in
\* non-decreasing ts order, whatever the order in which overlapping probes
\* completed (and so were appended).
C7_ReadInTsOrder ==
    apiPings.ok => TsOrderedPerTarget(apiPings.rows)

\* C7 witness: a response holding two samples of one target that were
\* appended in the opposite order.
C7_Witness ==
    /\ apiPings.ok
    /\ \E i, j \in DOMAIN apiPings.rows :
          /\ i < j
          /\ apiPings.rows[i].target = apiPings.rows[j].target
          /\ apiPings.rows[i].ts < apiPings.rows[j].ts
          /\ apiPings.rows[i].id > apiPings.rows[j].id

-----------------------------------------------------------------------------
(* SpecStore: the five interval callbacks run in the same millisecond *)

\* How long the event loop was held up, ms.
StallMs == 2000

\* The event loop was held up (the synchronous SELECT of /api/pings, say)
\* past the due time of every interval: their callbacks now run one after
\* the other and read the same Date.now().
InitStore ==
    /\ variant \in {"sqlite3", "better-sqlite3"}
    /\ running = TRUE
    /\ now = DayStart + StallMs
    /\ bootTs = DayStart
    /\ timers = [i \in DOMAIN TARGETS |-> [phase |-> "interval", due |-> now]]
    /\ ticks = {}
    /\ inflight = {}
    /\ tracer = RunAll(NoTracer, DayStart)
    /\ host = [ping |-> TRUE, store |-> TRUE, started |-> TRUE, exitCode |-> NULL]
    /\ pings = <<>>
    /\ traces = <<>>
    /\ errlog = <<>>
    /\ csv = NoCsv
    /\ failures = NoFailures
    /\ apiPings = NoResponse
    /\ apiStatus = NoStatus
    /\ apiTraces = NoResponse
    /\ timeline = NoTimeline

NextStore ==
    \/ \E i \in DOMAIN TARGETS : Tick(i)
    \/ \E p \in inflight, dbOk \in BOOLEAN : Complete(p, RawReply(10), dbOk)
    \/ GetPings(DashboardQuery, TRUE)

SpecStore == InitStore /\ [][NextStore]_vars

\* The probes whose callback has run and whose insert was issued and did
\* not fail.
Inserted ==
    {x \in ticks : /\ x \notin inflight
                   /\ \A j \in DOMAIN errlog :
                         ~(errlog[j].ts = x.ts /\ errlog[j].target = x.target)}

\* C8: each insert that did not fail has exactly one row of its own, with
\* its ts and target, whatever other rows carry the same ts, and the store
\* holds nothing else; a /api/pings response whose window contains the ts
\* holds every row stored when it was answered.
C8_NoSampleLostOrMerged ==
    /\ [](/\ \A x \in Inserted :
               Cardinality({j \in DOMAIN pings :
                              pings[j].ts = x.ts /\ pings[j].target = x.target}) = 1
          /\ Len(pings) = Cardinality(Inserted))
    /\ [][(apiPings' # apiPings /\ apiPings'.ok /\ apiPings'.since <= now)
            => Rows(apiPings'.rows) = Rows(pings)]_vars

\* C8 witness: the probes of the five targets, all with the same ts, have
\* been inserted, and a response holds the five rows.
C8_Witness ==
    /\ Len(pings) = Len(TARGETS)
    /\ \A j \in DOMAIN pings : pings[j].ts = now
    /\ {pings[j].target : j \in DOMAIN pings} = TargetSet
    /\ apiPings.ok
    /\ Len(apiPings.rows) = Len(TARGETS)

-----------------------------------------------------------------------------
(* SpecFail: the failure-correlation report over small tables *)

\* Samples taken at most in SpecFail.
MaxFailRows == 3

\* Sample times: the first instant of the day and the instants at and just
\* past the tolerance around it.
FailTs == {DayStart - TolMs, DayStart, DayStart + TolMs, DayStart + TolMs + 1}

FailTargets == {TargetKey, "8.8.8.8"}

NextFail ==
    \/ \E ts \in FailTs, t \in FailTargets, raw \in {RawReply(10), RawLost} :
          Sample(ts, t, raw, TRUE, MaxFailRows)
    \/ \E last \in {"ok", "locked"} : FailureReport(DayStart, Outcomes(0, last))

\* The report is run once the day is over.
SpecFail == InitWith(<<>>, DayStart + DayMs) /\ [][NextFail]_vars

\* The samples of X within the tolerance of t, both bounds included.
Within(table, t, X) ==
    {p \in Rows(table) :
       p.target = X /\ p.ts - t <= 1500 /\ t - p.ts <= 1500}

\* C9: a cell of the report is success when a sample of its target within
\* the tolerance (bounds included) of the failure is reachable, else fail
\* when there is a sample within the tolerance, else no_data.
C9_CellSuccessWins ==
    \A i \in DOMAIN failures.rows : \A X \in TargetsOther :
       LET near == Within(failures.table, failures.rows[i].ts, X)
       IN failures.rows[i].cells[X] =
            IF \E p \in near : p.alive = 1 THEN "success"
            ELSE IF near # {} THEN "fail"
            ELSE "no_data"

\* C9 witness: a success cell whose tolerance window holds a reachable and
\* an unreachable sample, one of them on the bound.
C9_Witness ==
    \E i \in DOMAIN failures.rows :
       LET near == Within(failures.table, failures.rows[i].ts, "8.8.8.8")
       IN /\ failures.rows[i].cells["8.8.8.8"] = "success"
          /\ \E p, q \in near :
                /\ p.alive = 1
                /\ q.alive = 0
                /\ p.ts = failures.rows[i].ts + 1500

\* The unreachable samples of the primary target in the day of the report.
PrimaryFailures ==
    {f \in Rows(failures.table) :
       /\ f.target = "1.1.1.1"
       /\ f.alive = 0
       /\ failures.start <= f.ts
       /\ f.ts < failures.start + DayMs}

\* C10: the report has one row for each unreachable sample of 1.1.1.1 with
\* START <= ts < END, no other row, and its rows are in non-decreasing ts
\* order.
C10_OneRowPerPrimaryFailure ==
    /\ Len(failures.rows) = Cardinality(PrimaryFailures)
    /\ \A f \in Rows(failures.table) :
          Cardinality({i \in DOMAIN failures.rows : failures.rows[i].ts = f.ts})
            = Cardinality({g \in PrimaryFailures : g.ts = f.ts})
    /\ \A i, j \in DOMAIN failures.rows :
          i < j => /\ failures.rows[i].ts <= failures.rows[j].ts
                   /\ failures.rows[i].datetime <= failures.rows[j].datetime

\* C10 witness: a report of two rows over three samples of 1.1.1.1, two
\* unreachable ones of the day stored later-first and one reachable.
C10_Witness ==
    /\ Len(failures.rows) = 2
    /\ Len(failures.table) = 3
    /\ \E a, b \in DOMAIN failures.table :
          /\ a < b
          /\ failures.table[a] \in PrimaryFailures
          /\ failures.table[b] \in PrimaryFailures
          /\ failures.table[a].ts > failures.table[b].ts
    /\ \E c \in DOMAIN failures.table :
          failures.table[c].target = "1.1.1.1" /\ failures.table[c].alive = 1

-----------------------------------------------------------------------------
(* SpecBuckets: samples on both sides of a half minute, aggregated by the  *)
(* dashboard and by the export at a whole and at a half minute             *)

\* Samples taken at most in SpecBuckets.
MaxBucketRows == 2

\* Tick times: the first ms of the day's 31st minute and 45 s later.
BucketTs == {DayStart + 30 * BucketMs, DayStart + 30 * BucketMs + 45000}

\* The clock when the aggregations run: an hour into the day, and half a
\* minute later.
BucketNow == {DayStart + 60 * BucketMs, DayStart + 60 * BucketMs + 30000}

BucketTargets == {"1.1.1.1", "8.8.8.8"}

NextBuckets ==
    \/ \E ts \in BucketTs, t \in BucketTargets :
          Sample(ts, t, RawReply(10), TRUE, MaxBucketRows)
    \/ GetPings(DashboardQuery, TRUE)
    \/ DrawTimeline
    \/ ExportDaily(DayStart, TRUE)

SpecBuckets == (\E clock \in BucketNow : InitWith(<<>>, clock)) /\ [][NextBuckets]_vars

\* floor(ts / 60000) * 60000
AlignedStart(ts) == ts - (ts % 60000)

\* The export counts in the row of (minute, target) the samples of the day
\* whose aligned bucket starts at that minute.
ExportBucketsAligned ==
    \A idx \in DOMAIN csv.rows : \A t \in DOMAIN csv.rows[idx] :
       \A r \in csv.rows[idx][t] :
          r.total = Cardinality({p \in Rows(csv.table) :
                                   /\ p.target = t
                                   /\ p.ts >= csv.start /\ p.ts < csv.start + DayMs
                                   /\ AlignedStart(p.ts) = r.minute})

\* The dashboard counts in each bucket the entries whose aligned bucket
\* starts where that bucket starts.
TimelineBucketsAligned ==
    \A t \in timeline.agg.targets : \A idx \in DOMAIN timeline.agg.buckets[t] :
       timeline.agg.buckets[t][idx].total =
          Cardinality({i \in DOMAIN timeline.entries :
                         /\ timeline.entries[i].target = t
                         /\ AlignedStart(timeline.entries[i].ts)
                              = timeline.agg.start + idx * 60000})

\* C11 as stated: the export and buildAggregatedTimeline count every sample
\* in the bucket that starts at floor(ts / 60000) * 60000, whenever they run.
C11_BucketOfTimestampOnly ==
    ExportBucketsAligned /\ TimelineBucketsAligned

\* C12 as stated: buildAggregatedTimeline has 720 buckets for every
\* configured target, also for a target without any entry.
C12_BucketsForEveryTarget ==
    timeline.drawn =>
       /\ timeline.agg.targets = TargetSet
       /\ \A t \in TargetSet : DOMAIN timeline.agg.buckets[t] = 0..719

\* What buildAggregatedTimeline does have: 720 buckets for every target
\* among the entries.
BucketsForEntryTargets ==
    timeline.drawn =>
       /\ timeline.agg.targets = {timeline.entries[i].target : i \in DOMAIN timeline.entries}
       /\ \A t \in timeline.agg.targets : DOMAIN timeline.agg.buckets[t] = 0..719

-----------------------------------------------------------------------------
(* SpecAgg: a few samples of two targets in the day's first two minutes, *)
(* then the daily export                                                 *)

\* Samples taken at most in SpecAgg.
MaxAggRows == 3

\* The probes taken: 1.1.1.1 in the first minute answering in 10 ms, in
\* 11 ms and without a time, 1.1.1.1 lost in the second minute, 8.8.8.8 in
\* the first minute answering in 20 ms.
AggInputs ==
    {[ts |-> DayStart,           target |-> "1.1.1.1", raw |-> RawReply(10)],
     [ts |-> DayStart,           target |-> "1.1.1.1", raw |-> RawReply(11)],
     [ts |-> DayStart,           target |-> "1.1.1.1", raw |-> RawReplyNoTime],
     [ts |-> DayStart + BucketMs, target |-> "1.1.1.1", raw |-> RawLost],
     [ts |-> DayStart,           target |-> "8.8.8.8", raw |-> RawReply(20)]}

NextAgg ==
    \/ \E c \in AggInputs : Sample(c.ts, c.target, c.raw, TRUE, MaxAggRows)
    \/ ExportDaily(DayStart, TRUE)

SpecAgg == InitWith(<<>>, DayStart + DayMs) /\ [][NextAgg]_vars

\* The samples of the exported store that the row r counts, and those of
\* them that carry a latency.
CountedIn(r) ==
    {p \in Rows(csv.table) : /\ p.target = r.target
                             /\ p.ts >= csv.start /\ p.ts < csv.start + DayMs
                             /\ p.ts >= r.minute /\ p.ts < r.minute + 60000}

Timed(r) == {p \in CountedIn(r) : p.time_ms # NULL}

\* C14 as stated: avg_ms is the arithmetic mean of the latencies of the
\* bucket's samples that carry one, and empty exactly when none does.
C14_AvgIsMean ==
    AllCsvRows(LAMBDA r :
       /\ r.avg_ms = NULL <=> Timed(r) = {}
       /\ Timed(r) # {} =>
             r.avg_ms * Cardinality(Timed(r)) = 100 * SumLatency(Timed(r)))

\* C14 amended: avg_ms is that mean rounded to two decimals (it is within
\* half a hundredth of the mean), and empty exactly when no sample of the
\* bucket carries a latency.
C14_AvgIsMeanToTwoDecimals ==
    AllCsvRows(LAMBDA r :
       /\ r.avg_ms = NULL <=> Timed(r) = {}
       /\ Timed(r) # {} =>
             LET n == Cardinality(Timed(r))
                 d == r.avg_ms * n - 100 * SumLatency(Timed(r))
             IN /\ 2 * d <= n
                /\ 2 * d >= -n)

\* C14 witness: a bucket of three samples, two with latencies 10 and 11 and
\* one without: avg_ms is 10.50.
C14_Witness ==
    SomeCsvRow(LAMBDA r :
       /\ r.total = 3
       /\ {p.time_ms : p \in CountedIn(r)} = {10, 11, NULL}
       /\ r.avg_ms = 1050)

\* The exported store holds exactly A@0 reachable in 10 ms, A@60000
\* unreachable and B@0 reachable in 20 ms (A = 1.1.1.1, B = 8.8.8.8, times
\* from the start of the day).
ScenarioStored ==
    /\ csv.ok
    /\ Len(csv.table) = 3
    /\ {<<p.target, p.ts - csv.start, p.alive, p.time_ms>> : p \in Rows(csv.table)}
         = {<<"1.1.1.1", 0, 1, 10>>, <<"1.1.1.1", 60000, 0, NULL>>,
            <<"8.8.8.8", 0, 1, 20>>}

\* The export's rows of target t in slot idx are one row with these values.
SlotIs(idx, t, result, ratio, avg) ==
    /\ Cardinality(csv.rows[idx][t]) = 1
    /\ \A r \in csv.rows[idx][t] :
          /\ r.result = result
          /\ r.success_ratio = ratio
          /\ r.avg_ms = avg

\* C15: for that store the buckets of A and B in [0, 120000) are four:
\* A@0 UP, ratio 1, average 10; A@60000 DOWN, ratio 0; B@0 UP, ratio 1,
\* average 20; B@60000 no_data. (Every other row of the day is no_data.)
C15_ScenarioBuckets ==
    ScenarioStored =>
       /\ SlotIs(0, "1.1.1.1", "UP", 1000, 1000)
       /\ SlotIs(1, "1.1.1.1", "DOWN", 0, NULL)
       /\ SlotIs(0, "8.8.8.8", "UP", 1000, 2000)
       /\ SlotIs(1, "8.8.8.8", "no_data", 0, NULL)
       /\ AllCsvRows(LAMBDA r :
             (r.idx > 1 \/ r.target \notin {"1.1.1.1", "8.8.8.8"}) => r.result = "no_data")

\* C15 witness: the export of that store, its samples stored in another
\* order than the scenario lists them.
C15_Witness ==
    /\ ScenarioStored
    /\ csv.table[1].target = "8.8.8.8"

-----------------------------------------------------------------------------
(* SpecQuery: GET /api/pings with every kind of hours and limit value *)

\* Samples taken at most in SpecQuery.
MaxQueryRows == 2

\* The clock of the requests.
QueryNow == DayStart + 2 * DayMs

\* Tick times: 25 h, 2 h, exactly 1 h and 45 min before the requests.
QueryTs == {QueryNow - 25 * 3600000, QueryNow - 2 * 3600000,
            QueryNow - 3600000, QueryNow - 45 * 60000}

\* hours: absent, 0, -1, 0.5, 1, 2; limit: absent, not a number, -1, 0, 1.
Queries ==
    LET hours == {<<FALSE, 0>>} \cup {<<TRUE, h>> : h \in {0, -100, 50, 100, 200}}
        limits == {<<"absent", 0>>, <<"nan", 0>>} \cup {<<"int", l>> : l \in {-1, 0, 1}}
    IN {Query(h[1], h[2], l[1], l[2]) : h \in hours, l \in limits}

NextQuery ==
    \/ \E ts \in QueryTs : Sample(ts, "1.1.1.1", RawReply(10), TRUE, MaxQueryRows)
    \/ \E q \in Queries : GetPings(q, TRUE)

SpecQuery == InitWith(<<>>, QueryNow) /\ [][NextQuery]_vars

\* The stored samples a response with window start since may hold.
Eligible(since) == {p \in Rows(apiPings.table) : p.ts >= since}

\* The response's window is hours100 hundredths of an hour: its since, and
\* the samples it holds.
WindowIs(hours100) ==
    /\ apiPings.since = apiPings.at - hours100 * 36000
    /\ Rows(apiPings.rows) \subseteq Eligible(apiPings.since)
    /\ apiPings.q.limitKind = "absent" => Rows(apiPings.rows) = Eligible(apiPings.since)

\* C16 as stated: the window is 24 h when hours is absent and max(1, hours)
\* hours for every number supplied, 0 and negative numbers included.
C16_WindowFlooredAtOneHour ==
    apiPings.ok =>
       WindowIs(IF ~apiPings.q.hoursNum THEN 2400
                ELSE IF apiPings.q.h100 < 100 THEN 100
                ELSE apiPings.q.h100)

\* What the handler does: hours = 0 is taken as absent.
WindowZeroIsDefault ==
    apiPings.ok =>
       WindowIs(IF ~apiPings.q.hoursNum \/ apiPings.q.h100 = 0 THEN 2400
                ELSE IF apiPings.q.h100 < 100 THEN 100
                ELSE apiPings.q.h100)

\* C17 as stated: a response never holds more rows than the limit supplied
\* (none for a negative one), or than 200000 when no limit is supplied.
C17_RowsCapped ==
    apiPings.ok =>
       Len(apiPings.rows) <=
          (IF apiPings.q.limitKind = "absent" THEN 200000
           ELSE IF apiPings.q.limit < 0 THEN 0
           ELSE apiPings.q.limit)

\* What the handler does: the cap holds for every limit that is not negative.
RowsCappedUnlessNegative ==
    (apiPings.ok /\ ~(apiPings.q.limitKind = "int" /\ apiPings.q.limit < 0)) =>
       Len(apiPings.rows) <=
          (IF apiPings.q.limitKind = "absent" THEN 200000 ELSE apiPings.q.limit)

\* C27: when the window holds more samples than the limit allows, the rows
\* GET /api/pings returns still include the newest stored sample of the
\* window (so the dashboard's request of 12 hours with the default limit
\* shows the most recent sample of every target).
C27_NewestSurvivesLimit ==
    (apiPings.ok /\ LimitOf(apiPings.q) > 0) =>
       \A e \in Eligible(apiPings.since) :
          (\A o \in Eligible(apiPings.since) : o.ts <= e.ts)
             => e.ts \in {r.ts : r \in Rows(apiPings.rows)}

\* What the handler does: ORDER BY ts ASC LIMIT keeps the oldest samples of
\* the window, so no sample left out is older than one returned.
OldestSurviveLimit ==
    apiPings.ok =>
       \A e \in Eligible(apiPings.since) \ Rows(apiPings.rows) :
          \A r \in Rows(apiPings.rows) : r.ts <= e.ts

\* A request limited to one row has left out the newer of two samples of
\* its window.
NewestLeftOut ==
    /\ apiPings.ok
    /\ LimitOf(apiPings.q) = 1
    /\ Len(apiPings.rows) = 1
    /\ \E e \in Eligible(apiPings.since) : e.ts > apiPings.rows[1].ts

-----------------------------------------------------------------------------
(* SpecStatus: GET /api/status beside the inserts *)

\* Samples stored at most in SpecStatus.
MaxStatusRows == 2

\* The clock of the requests.
StatusNow == DayStart + 3600000

\* Tick times: two and one second before the requests.
StatusTs == {StatusNow - 2000, StatusNow - 1000}

StatusTargets == {"1.1.1.1", "8.8.8.8"}

\* The stores the server starts on: an empty one, and one that holds a
\* sample of 1.1.1.1.
StatusStores ==
    {<<>>, InsertPing(<<>>, StatusNow - 1000, "1.1.1.1", RunPingCommand(RawReply(10)))}

\* The lookups that fail: none, the one of 1.1.1.1, all.
StatusFails == {{}, {"1.1.1.1"}, TargetSet}

NextStatus ==
    \/ \E ts \in StatusTs, t \in StatusTargets :
          Sample(ts, t, RawReply(10), TRUE, MaxStatusRows)
    \/ \E fails \in StatusFails : GetStatus(fails)

SpecStatus == (\E table \in StatusStores : InitWith(table, StatusNow))
              /\ [][NextStatus]_vars

\* The response is a JSON body sent once, whose latest has for each
\* configured target a stored sample of it with the greatest ts, or null
\* exactly when none of it is stored.
LatestIsNewest ==
    /\ apiStatus.json
    /\ apiStatus.ok
    /\ apiStatus.sent = 1
    /\ apiStatus.targets = TARGETS
    /\ DOMAIN apiStatus.latest = TargetSet
    /\ \A t \in TargetSet :
          LET stored == {p \in Rows(apiStatus.table) : p.target = t}
              row    == apiStatus.latest[t]
          IN /\ row = NoRow <=> stored = {}
             /\ row # NoRow => /\ row \in stored
                               /\ \A p \in stored : p.ts <= row.ts

\* C18 as stated: every /api/status request is answered once with such a
\* response.
C18_StatusLatestPerTarget ==
    apiStatus.received => LatestIsNewest

\* What the handler does: such a response whenever no lookup fails.
StatusLatestUnlessLookupFails ==
    (apiStatus.received /\ ~apiStatus.failed) => LatestIsNewest

-----------------------------------------------------------------------------
(* SpecTraces: GET /api/traceroutes beside the trace inserts *)

\* Traces stored at most in SpecTraces.
MaxTraces == 11

\* The clock of the requests.
TracesNow == DayStart + 3600000

\* The ts of the traces: two runAll cycles, 5 minutes apart.
TraceTs == {TracesNow - 5 * 60 * 1000, TracesNow}

\* limit: absent, not a number, -1, 1.
TraceQueries ==
    {Query(FALSE, 0, l[1], l[2]) :
        l \in {<<"absent", 0>>, <<"nan", 0>>, <<"int", -1>>, <<"int", 1>>}}

NextTraces ==
    \/ \E ts \in TraceTs : TraceSample(ts, "1.1.1.1", TRUE, MaxTraces)
    \/ \E q \in TraceQueries : GetTraceroutes(q, TRUE)

SpecTraces == InitWith(<<>>, TracesNow) /\ [][NextTraces]_vars

\* The response holds min(cap, stored) distinct stored traces in
\* non-increasing ts order, and no stored trace it leaves out has a greater
\* ts than one it holds.
NewestTraces(cap) ==
    LET rows   == apiTraces.rows
        stored == Rows(apiTraces.table)
    IN /\ Len(rows) <= cap
       /\ Len(rows) = IF Cardinality(stored) < cap THEN Cardinality(stored) ELSE cap
       /\ Rows(rows) \subseteq stored
       /\ Cardinality(Rows(rows)) = Len(rows)
       /\ \A i, j \in DOMAIN rows : i < j => rows[i].ts >= rows[j].ts
       /\ \A p \in stored \ Rows(rows) : \A i \in DOMAIN rows : p.ts <= rows[i].ts

\* C19 as stated: at most limit rows (10 when absent; none for a negative
\* limit), newest first, the newest stored.
C19_NewestTracesUpToLimit ==
    apiTraces.ok =>
       NewestTraces(IF apiTraces.q.limitKind = "absent" THEN 10
                    ELSE IF apiTraces.q.limit < 0 THEN 0
                    ELSE apiTraces.q.limit)

\* What the handler does: that, for every limit that is not negative.
NewestTracesUnlessNegative ==
    (apiTraces.ok /\ ~(apiTraces.q.limitKind = "int" /\ apiTraces.q.limit < 0)) =>
       NewestTraces(IF apiTraces.q.limitKind = "absent" THEN 10 ELSE apiTraces.q.limit)

-----------------------------------------------------------------------------
(* SpecErrors: the three query endpoints with failing SELECTs *)

\* The /api/pings requests: hours absent, 1, 12; limit absent or not a number.
ErrorQueries ==
    {Query(h[1], h[2], l, 0) :
        h \in {<<FALSE, 0>>, <<TRUE, 100>>, <<TRUE, 1200>>}, l \in {"absent", "nan"}}

NextErrors ==
    \/ \E q \in ErrorQueries, dbOk \in BOOLEAN : GetPings(q, dbOk)
    \/ \E fails \in StatusFails : GetStatus(fails)
    \/ \E q \in TraceQueries, dbOk \in BOOLEAN : GetTraceroutes(q, dbOk)

SpecErrors == InitWith(<<>>, StatusNow) /\ [][NextErrors]_vars

\* C20 as stated: a request whose store query failed is answered with a
\* JSON body with ok false, never with ok true, and the process runs on.
C20_FailureIsOkFalse ==
    /\ running
    /\ apiPings.failed => (apiPings.json /\ ~apiPings.ok)
    /\ apiStatus.failed => (apiStatus.json /\ ~apiStatus.ok)
    /\ apiTraces.failed => (apiTraces.json /\ ~apiTraces.ok)

\* What the handlers do: the process runs on, and the sqlite3 server
\* answers a failing /api/pings or /api/traceroutes query as claimed.
FailureAnswersOfSqlite3 ==
    /\ running
    /\ variant = "sqlite3" =>
          /\ apiPings.failed => (apiPings.json /\ ~apiPings.ok)
          /\ apiTraces.failed => (apiTraces.json /\ ~apiTraces.ok)

-----------------------------------------------------------------------------
(* SpecTraceLoop: the trace loop alone, over its first cycles *)

\* The clock is followed for this many trace staggers into the second cycle.
TraceHorizonSteps == 2

TraceHorizon == DayStart + TraceCycleMs + TraceHorizonSteps * TraceDelay(1)

NextTraceLoop ==
    \/ TraceCycle
    \/ \E t \in tracer.pending : TraceStart(t)
    \/ \E t \in tracer.inflight, dbOk \in BOOLEAN : TraceComplete(t, dbOk)
    \/ AdvanceTraces(TraceHorizon)

SpecTraceLoop == InitWith(<<>>, DayStart) /\ [][NextTraceLoop]_vars

\* The traceroute of the i-th target in the k-th cycle after the start of the
\* loop: started i-1 staggers into the cycle, stamped with the cycle's start.
FanOut(k, i) ==
    [target |-> TARGETS[i], ts |-> bootTs + k * TraceCycleMs,
     at |-> bootTs + k * TraceCycleMs + TraceDelay(i - 1)]

\* The cycles that begin within the horizon.
CycleNumbers == 0..((TraceHorizon - DayStart) \div TraceCycleMs)

\* C21: the traceroutes run as one fan-out per cycle: the trace of the i-th
\* target starts (i-1)*500 ms after the cycle's start, and a cycle starts
\* every 5 minutes from the start of the scheduler on. Every traceroute
\* started is one of the fan-out, and every one of the fan-out whose start
\* time has passed was started.
C21_FanOutEveryCycle ==
    /\ tracer.started \subseteq {FanOut(k, i) : k \in CycleNumbers, i \in DOMAIN TARGETS}
    /\ \A k \in CycleNumbers, i \in DOMAIN TARGETS :
          FanOut(k, i).at < now => FanOut(k, i) \in tracer.started

\* What holds of both servers: the fan-out is kept for as long as the
\* process runs.
FanOutWhileRunning ==
    /\ tracer.started \subseteq {FanOut(k, i) : k \in CycleNumbers, i \in DOMAIN TARGETS}
    /\ running =>
         \A k \in CycleNumbers, i \in DOMAIN TARGETS :
            FanOut(k, i).at < now => FanOut(k, i) \in tracer.started

\* The second cycle has begun while the process runs.
SecondCycleStarted ==
    /\ running
    /\ FanOut(1, 2) \in tracer.started

\* C29: the fan-out cycles never overlap in flight: when a cycle starts,
\* every traceroute of the cycle before has completed (the last one starts
\* 2000 ms into its cycle and is given up 120000 ms later, long before the
\* next cycle, 300000 ms after the start of its own). The traceroutes in
\* flight, and those still to start, all belong to the newest cycle.
C29_CyclesNeverOverlap ==
    \A t \in tracer.inflight \cup tracer.pending :
        \A c \in tracer.cycles : c <= t.ts

\* The second cycle has traceroutes in flight after every traceroute of the
\* first has completed and been stored.
C29_Witness ==
    /\ \E t \in tracer.inflight : t.ts = bootTs + TraceCycleMs
    /\ \A i \in DOMAIN TARGETS :
          \E r \in Rows(traces) : r.ts = bootTs /\ r.target = TARGETS[i]

-----------------------------------------------------------------------------
(* SpecProbe: the first ticks of the ping loop, with every kind of output *)

\* The clock is followed for this many staggers after the first tick.
ProbeHorizonSteps == 1

ProbeHorizon == DayStart + IntervalMs + ProbeHorizonSteps * TimeoutDelay(1)

\* What a probe can end with: each pattern matching or not, with and without
\* an error of the command.
ProbeOutcomes ==
    [time : {NULL, 10}, bytesFrom : BOOLEAN, ttl : {NULL, 57}, err : BOOLEAN]

NextProbe ==
    \/ \E i \in DOMAIN TARGETS : Tick(i)
    \/ \E p \in inflight, raw \in ProbeOutcomes, dbOk \in BOOLEAN : Complete(p, raw, dbOk)
    \/ Advance(ProbeHorizon)

SpecProbe == InitWith(<<>>, DayStart) /\ [][NextProbe]_vars

\* C22: every stored probe sample has a timestamp (that of a tick), a target
\* of the configured set and a reachable flag that is exactly 0 or 1, and its
\* latency is null whenever the flag is 0.
C22_StoredSampleWellFormed ==
    \A p \in Rows(pings) :
        /\ p.ts # NULL
        /\ p.ts \in {x.ts : x \in ticks}
        /\ p.target \in TargetSet
        /\ p.alive \in {0, 1}
        /\ p.alive = 0 => p.time_ms = NULL

\* Both kinds of sample are stored: an unreachable one, and a reachable one
\* that carries a latency.
C22_Witness ==
    /\ \E p \in Rows(pings) : p.alive = 0 /\ p.time_ms = NULL
    /\ \E p \in Rows(pings) : p.alive = 1 /\ p.time_ms # NULL

\* C23: runPingCommand reports the target reachable exactly when the output
\* matches the time pattern or holds 'bytes from', whether or not the command
\* failed; the latency is non-null exactly when the time pattern matched and
\* the ttl exactly when the ttl pattern matched.
C23_ReachableFromOutputOnly ==
    \A p \in Rows(pings) :
        /\ p.alive = 1 <=> (p.raw.time # NULL \/ p.raw.bytesFrom)
        /\ p.time_ms # NULL <=> p.raw.time # NULL
        /\ p.ttl # NULL <=> p.raw.ttl # NULL
        /\ p.raw.time # NULL => p.time_ms = p.raw.time
        /\ p.raw.ttl # NULL => p.ttl = p.raw.ttl

\* A command that failed with 'bytes from' in its output and no time is
\* stored reachable without latency, and one killed with nothing matching is
\* stored unreachable.
C23_Witness ==
    /\ \E p \in Rows(pings) :
          p.raw.err /\ p.raw.bytesFrom /\ p.raw.time = NULL /\ p.alive = 1
    /\ \E p \in Rows(pings) :
          p.raw.err /\ ~p.raw.bytesFrom /\ p.raw.time = NULL /\ p.alive = 0

-----------------------------------------------------------------------------
(* SpecBoot: startup on a machine with or without a store and a ping command *)

\* The clock is followed for this many staggers after the first tick.
BootHorizonSteps == 1

BootHorizon == DayStart + IntervalMs + BootHorizonSteps * TimeoutDelay(1)

\* The process has not been started yet.
InitBoot ==
    /\ variant \in {"sqlite3", "better-sqlite3"}
    /\ running = FALSE
    /\ now = DayStart
    /\ bootTs = 0
    /\ timers = [i \in DOMAIN TARGETS |-> [phase |-> "timeout", due |-> 0]]
    /\ ticks = {}
    /\ inflight = {}
    /\ tracer = NoTracer
    /\ host \in [ping : BOOLEAN, store : BOOLEAN, started : {FALSE}, exitCode : {NULL}]
    /\ pings = <<>>
    /\ traces = <<>>
    /\ errlog = <<>>
    /\ csv = NoCsv
    /\ failures = NoFailures
    /\ apiPings = NoResponse
    /\ apiStatus = NoStatus
    /\ apiTraces = NoResponse
    /\ timeline = NoTimeline

NextBoot ==
    \/ Startup
    \/ \E i \in DOMAIN TARGETS : Tick(i)
    \/ \E p \in inflight, raw \in {RawReply(10), RawLost} : Complete(p, raw, TRUE)
    \/ GetPings(DashboardQuery, TRUE)
    \/ Advance(BootHorizon)

SpecBoot == InitBoot /\ [][NextBoot]_vars

\* C24: when the store cannot be opened or the ping command is absent, the
\* started process has exited with a non-zero status, having served no
\* request and fired no probe tick: the server never runs while every probe
\* fails to launch.
C24_NoDegradedStartup ==
    (host.started /\ (~host.store \/ ~host.ping)) =>
        /\ ~running
        /\ host.exitCode # NULL /\ host.exitCode # 0
        /\ ticks = {}
        /\ ~apiPings.received

\* What holds: a store that cannot be opened ends the process at startup.
StoreFailureEndsStartup ==
    (host.started /\ ~host.store) =>
        /\ ~running
        /\ host.exitCode = 1
        /\ ticks = {}
        /\ ~apiPings.received

\* Without a ping command the better-sqlite3 server runs, answers requests
\* and stores every sample as unreachable.
DegradedStartup ==
    /\ ~host.ping
    /\ running
    /\ apiPings.ok
    /\ Len(pings) = 2
    /\ \A p \in Rows(pings) : p.alive = 0

-----------------------------------------------------------------------------
(* SpecLocks: the two report scripts on a store that may be locked *)

\* Samples taken at most in SpecLocks.
MaxLockRows == 1

\* What the attempts of the failure report meet: the lock held for 0..5
\* attempts, then success or an error other than the lock.
LockOutcomes == {Outcomes(k, last) : k \in 0..Attempts, last \in {"ok", "error", "failed"}}

NextLocks ==
    \/ \E raw \in {RawReply(10), RawLost} : Sample(DayStart, "1.1.1.1", raw, TRUE, MaxLockRows)
    \/ \E dbOk \in BOOLEAN : ExportDaily(DayStart, dbOk)
    \/ \E o \in LockOutcomes : FailureReport(DayStart, o)

SpecLocks == InitWith(<<>>, DayStart + DayMs) /\ [][NextLocks]_vars

\* The last run of the failure report met the lock on its first k attempts
\* and then a database it could read.
LockCleared(k) ==
    /\ failures.run.ran
    /\ \A j \in 1..k : failures.run.outcomes[j] = "locked"
    /\ failures.run.outcomes[k + 1] = "ok"

\* What holds of the failure report: a lock that clears before the fifth
\* attempt ends is retried after 2, 4, ... seconds, and the report of the
\* attempt that succeeds is complete.
FailureReportRetries ==
    \A k \in 0..(Attempts - 1) :
       LockCleared(k) =>
          /\ failures.run.rc = 0
          /\ failures.run.attempts = k + 1
          /\ failures.run.slept = k * (k + 1)
          /\ failures.written
          /\ failures.rows = FailureRows(failures.table, failures.start)

\* C25: both report scripts retry on 'database is locked': an attempt of
\* either that meets the lock is followed by another one, and a lock that
\* clears before the attempts are exhausted gives a complete report.
C25_BothReportsRetry ==
    /\ FailureReportRetries
    /\ (csv.written /\ ~csv.ok) => csv.attempts > 1

\* The failure report was written by the third attempt after two locked
\* ones, and the daily export has met the lock.
LockMetByBoth ==
    /\ LockCleared(2)
    /\ failures.run.attempts = 3
    /\ csv.written /\ ~csv.ok

-----------------------------------------------------------------------------
(* SpecServe: both loops and the three query handlers, from the start on *)

\* The clock is followed for this many ping staggers after the start.
ServeHorizonSteps == 5

ServeHorizon == DayStart + ServeHorizonSteps * TimeoutDelay(1)

NextServe ==
    \/ \E i \in DOMAIN TARGETS : Tick(i)
    \/ \E p \in inflight, dbOk \in BOOLEAN : Complete(p, RawReply(10), dbOk)
    \/ \E t \in tracer.pending : TraceStart(t)
    \/ \E t \in tracer.inflight, dbOk \in BOOLEAN : TraceComplete(t, dbOk)
    \/ GetPings(DashboardQuery, TRUE)
    \/ GetStatus({})
    \/ GetTraceroutes(NoQuery, TRUE)
    \/ AdvanceBoth(ServeHorizon)

SpecServe == InitWith(<<>>, DayStart) /\ [][NextServe]_vars

\* Every row of table is in next, at its place and as it was.
KeptIn(table, next) ==
    \A i \in DOMAIN table : i \in DOMAIN next /\ next[i] = table[i]

\* C26: the serving process only appends to the store: no step of a
\* scheduler or a query handler changes or removes a stored probe or trace
\* sample, and a step that answers GET /api/pings, /api/status or
\* /api/traceroutes leaves both tables as they are.
C26_AppendOnly ==
    [][/\ KeptIn(pings, pings')
       /\ KeptIn(traces, traces')
       /\ (apiPings' # apiPings \/ apiStatus' # apiStatus \/ apiTraces' # apiTraces)
             => (pings' = pings /\ traces' = traces)]_vars

\* The three handlers have answered from a store that holds a probe sample
\* and two trace samples.
C26_Witness ==
    /\ Len(pings) >= 1
    /\ Len(traces) >= 2
    /\ apiPings.ok /\ apiPings.table = pings
    /\ apiStatus.received /\ apiStatus.table = pings
    /\ apiTraces.ok /\ apiTraces.table = traces

-----------------------------------------------------------------------------
(* SpecSlow: the ping loop while probes take as long as they are allowed *)

\* The clock is followed for this many staggers after the start: past the
\* timeout of the first probe.
SlowHorizonSteps == 30

SlowHorizon == DayStart + SlowHorizonSteps * TimeoutDelay(1)

\* The probes of the first target end when they please; those of the other
\* targets run into their timeout.
NextSlow ==
    \/ \E i \in DOMAIN TARGETS : Tick(i)
    \/ \E p \in inflight :
          /\ p.target = TARGETS[1] \/ p.ts + ExecTimeoutMs = now
          /\ Complete(p, RawLost, TRUE)
    \/ Advance(SlowHorizon)

SpecSlow == InitWith(<<>>, DayStart) /\ [][NextSlow]_vars

\* The probes of target in flight.
InFlightOf(target) == {p \in inflight : p.target = target}

-----------------------------------------------------------------------------
(* SpecStamp: both loops from the start on, and the timestamps they store *)

\* The clock is followed for this many ping staggers after the start.
StampHorizonSteps == 6

StampHorizon == DayStart + StampHorizonSteps * TimeoutDelay(1)

NextStamp ==
    \/ \E i \in DOMAIN TARGETS : Tick(i)
    \/ \E p \in inflight : Complete(p, RawReply(10), TRUE)
    \/ \E t \in tracer.pending : TraceStart(t)
    \/ \E t \in tracer.inflight : TraceComplete(t, TRUE)
    \/ AdvanceBoth(StampHorizon)

SpecStamp == InitWith(<<>>, DayStart) /\ [][NextStamp]_vars

\* C30: a stored timestamp is the time its tick fired: a ping row carries
\* the clock value read at the interval tick of its target, and a trace row
\* the clock value runAll read at the start of its cycle, the same for all
\* targets of the cycle although their traceroutes start 500 ms apart.
C30_StampIsTickTime ==
    /\ \A p \in Rows(pings) : [target |-> p.target, ts |-> p.ts] \in ticks
    /\ \A r \in Rows(traces) :
          /\ r.ts \in tracer.cycles
          /\ \E i \in DOMAIN TARGETS :
                /\ r.target = TARGETS[i]
                /\ [target |-> r.target, ts |-> r.ts, at |-> r.ts + TraceDelay(i - 1)]
                      \in tracer.started

\* A ping row stored after its tick carries the tick's time, and the trace
\* rows of the first three targets, started 500 ms apart, carry the one
\* timestamp of their cycle.
C30_Witness ==
    /\ \E p \in Rows(pings) : p.ts = bootTs + IntervalMs /\ p.ts < now
    /\ \A i \in 1..3 :
          /\ \E r \in Rows(traces) : r.target = TARGETS[i] /\ r.ts = bootTs
          /\ [target |-> TARGETS[i], ts |-> bootTs, at |-> bootTs + TraceDelay(i - 1)]
                \in tracer.started

-----------------------------------------------------------------------------
(* SpecTimeline: buildAggregatedTimeline on entries inside and on both    *)
(* sides of its window                                                     *)

\* Samples taken at most in SpecTimeline.
MaxTimelineRows == 2

\* The server's clock when the dashboard asks.
TimelineNow == DayStart + 2 * DayMs

\* The browser's clock when it builds the timeline: the server's, a minute
\* and a half ahead of it, and a minute and a half behind.
BrowserClocks == {TimelineNow, TimelineNow + 90000, TimelineNow - 90000}

\* The samples taken: of one target at the start of the 12 h before the
\* request, a minute later and in the request's last ms, and of another
\* half a minute before the request.
TimelineInputs ==
    {[ts |-> TimelineNow - TimelineMinutes * BucketMs, target |-> "1.1.1.1",
      raw |-> RawReply(10)],
     [ts |-> TimelineNow - TimelineMinutes * BucketMs + BucketMs, target |-> "1.1.1.1",
      raw |-> RawLost],
     [ts |-> TimelineNow - 30000, target |-> "8.8.8.8", raw |-> RawReply(10)],
     [ts |-> TimelineNow - 1, target |-> "1.1.1.1", raw |-> RawLost]}

NextTimeline ==
    \/ \E x \in TimelineInputs : Sample(x.ts, x.target, x.raw, TRUE, MaxTimelineRows)
    \/ GetPings(DashboardQuery, TRUE)
    \/ \E clock \in BrowserClocks : DrawTimelineAt(clock)

SpecTimeline == InitWith(<<>>, TimelineNow) /\ [][NextTimeline]_vars

\* The entries of target t the timeline was built from whose timestamp lies
\* in [lo, hi).
EntriesIn(t, lo, hi) ==
    {i \in DOMAIN timeline.entries :
        /\ timeline.entries[i].target = t
        /\ lo <= timeline.entries[i].ts
        /\ timeline.entries[i].ts < hi}

\* The totals of the buckets lo .. hi - 1 of a target, summed (by halves).
RECURSIVE TotalBetween(_, _, _)
TotalBetween(row, lo, hi) ==
    IF hi <= lo THEN 0
    ELSE IF hi = lo + 1 THEN row[lo].total
    ELSE LET mid == (lo + hi) \div 2
         IN TotalBetween(row, lo, mid) + TotalBetween(row, mid, hi)

\* C31: in buildAggregatedTimeline every bucket has 0 <= ok <= total, every
\* entry whose timestamp lies in the window [start, start + 720 * 60000) is
\* counted in exactly one bucket of its own target, the one its minute
\* belongs to, and entries outside the window are counted in no bucket: the
\* totals of a target sum to the number of its entries in the window.
C31_BucketsCountWindowEntries ==
    timeline.drawn =>
       \A t \in timeline.agg.targets :
          LET row   == timeline.agg.buckets[t]
              start == timeline.agg.start
          IN /\ \A idx \in DOMAIN row :
                   /\ 0 <= row[idx].ok /\ row[idx].ok <= row[idx].total
                   /\ row[idx].total =
                        Cardinality(EntriesIn(t, start + idx * BucketMs,
                                              start + (idx + 1) * BucketMs))
                   /\ row[idx].ok =
                        Cardinality({i \in EntriesIn(t, start + idx * BucketMs,
                                                     start + (idx + 1) * BucketMs) :
                                       timeline.entries[i].alive = 1})
             /\ TotalBetween(row, 0, TimelineMinutes) =
                   Cardinality(EntriesIn(t, start, start + TimelineMinutes * BucketMs))

\* A timeline was built from an entry less than a minute before its window,
\* which no bucket counts, and an unreachable one inside the window.
C31_Witness ==
    /\ timeline.drawn
    /\ \E i, j \in DOMAIN timeline.entries :
          /\ timeline.entries[i].target = timeline.entries[j].target
          /\ timeline.entries[i].ts < timeline.agg.start
          /\ timeline.entries[i].ts > timeline.agg.start - BucketMs
          /\ timeline.entries[j].ts >= timeline.agg.start
          /\ timeline.entries[j].alive = 0
          /\ TotalBetween(timeline.agg.buckets[timeline.entries[j].target], 0,
                          TimelineMinutes) = 1

-----------------------------------------------------------------------------
(* SpecReport: the failure report run again and again beside the inserts *)

\* Samples taken at most in SpecReport.
MaxReportRows == 2

\* Tick times of the samples: two seconds of the day.
ReportTs == {DayStart, DayStart + 1000}

NextReport ==
    \/ \E ts \in ReportTs, raw \in {RawReply(10), RawLost} :
          Sample(ts, "1.1.1.1", raw, TRUE, MaxReportRows)
    \/ \E o \in LockOutcomes : FailureReport(DayStart, o)

SpecReport == InitWith(<<>>, DayStart + DayMs) /\ [][NextReport]_vars

\* The day's report file: whether it exists, and what it holds.
ReportFile(f) == [written |-> f.written, start |-> f.start, table |-> f.table, rows |-> f.rows]

\* C32: the failure report replaces the day's report only after an attempt
\* of sqlite3 has succeeded, with the complete output of that attempt; when
\* every attempt fails (the lock through all 5 attempts, or another error)
\* the script stops after at most 5 attempts with a non-zero status, removes
\* its temporary file and leaves the report that was there as it was.
C32_ReportReplacedOnlyOnSuccess ==
    [][LET run == failures'.run
       IN /\ run.attempts <= Attempts
          /\ ~failures'.tmp
          /\ (run.ran /\ \A k \in 1..run.attempts : run.outcomes[k] # "ok") => run.rc # 0
          /\ run.rc # 0 => ReportFile(failures') = ReportFile(failures)
          /\ ReportFile(failures') # ReportFile(failures) =>
                /\ run.rc = 0
                /\ run.outcomes[run.attempts] = "ok"
                /\ failures'.rows = FailureRows(pings, failures'.start)
                /\ failures'.table = pings]_vars

\* The script has met the lock on all 5 attempts, and the report written
\* before, which lists a failure, is still there though the store has grown
\* since.
C32_Witness ==
    /\ failures.run.ran
    /\ failures.run.rc # 0
    /\ failures.run.attempts = Attempts
    /\ \A k \in 1..Attempts : failures.run.outcomes[k] = "locked"
    /\ failures.written
    /\ Len(failures.rows) = 1
    /\ Len(failures.table) = 1
    /\ Len(pings) = 2

====
